---------------------------- MODULE Spec2Model ----------------------------
(***************************************************************************)
(* A model of wlink, the host-side driver of the WCH-Link debug probe.     *)
(*                                                                         *)
(*  - the command codec (src/src/commands/mod.rs, commands/control.rs):    *)
(*    Command::to_raw and Response::from_raw, as operators on byte         *)
(*    sequences;                                                           *)
(*  - the probe session (src/src/operations.rs, src/src/device.rs):        *)
(*    attach_chip, detach_chip, protect_flash, erase_flash, write_flash,   *)
(*    one action each.  An action runs the whole operation against a       *)
(*    probe that answers every command with a frame, a protocol error or   *)
(*    a USB failure, and leaves the traffic of the operation in `wire`.    *)
(*                                                                         *)
(* Bytes are naturals in 0..255, written in decimal:                       *)
(*   0x81 = 129, 0x82 = 130, 0x55 = 85, 0xFF = 255, 0xBF = 191.            *)
(***************************************************************************)
EXTENDS Integers, Sequences, FiniteSets, TLC

VARIABLES
    fn,       \* codec: the pure function under evaluation
    arg,      \* codec: its input
    out,      \* codec: its output, meaningful once done
    done,     \* codec: whether the function has been applied
    dev,      \* the probe and target on the other end of the USB cable
    chip,     \* WchLink.chip : Option<ChipInfo>
    probe,    \* WchLink.probe : Option<ProbeInfo>
    speed,    \* WchLink.speed
    op,       \* the operation the caller invoked last, with its arguments
    wire,     \* the endpoint traffic of that operation, in order
    res,      \* the Result that operation returned
    attached  \* history: attach_chip returned Ok and the caller has not
              \* called detach_chip since

vars == <<fn, arg, out, done, dev, chip, probe, speed, op, wire, res, attached>>

codecVars == <<fn, arg, out, done>>
sessionVars == <<dev, chip, probe, speed, op, wire, res, attached>>

-----------------------------------------------------------------------------
(* Bounds of the model.                                                    *)

\* longest payload whose every content over PayloadBytes is enumerated
MaxPayload == 3
\* longest payload given to the encoder (contents are a fill pattern)
LongPayload == 60

-----------------------------------------------------------------------------
(* Results: Result<T, Error> of src/src/error.rs.  `code` and `bytes`      *)
(* carry the fields of the error variant (Protocol(reason, frame),         *)
(* UnknownChip(b), ChipMismatch(want, got)).  A Rust panic (index out of   *)
(* bounds, unwrap on None) is the third kind.                              *)

Ok(v) == [kind |-> "Ok", err |-> "", code |-> 0, bytes |-> <<>>, val |-> v]

Err(e, c, b) == [kind |-> "Err", err |-> e, code |-> c, bytes |-> b, val |-> <<>>]

Panic(why) == [kind |-> "Panic", err |-> why, code |-> 0, bytes |-> <<>>, val |-> <<>>]

\* resp[3..] of Rust: the bytes after the three header bytes (1-based here)
Tail3(resp) == SubSeq(resp, 4, Len(resp))

\* u32::from_be_bytes
from_be_bytes(b) == b[1] * 16777216 + b[2] * 65536 + b[3] * 256 + b[4]

\* u32::to_be_bytes
to_be_bytes(x) ==
    << (x \div 16777216) % 256, (x \div 65536) % 256, (x \div 256) % 256, x % 256 >>

\* A u32 of the debug module (a DMI data word, a register image, a
\* target address).  Its value can exceed 2^31 - 1, so it is kept as its
\* two 16-bit halves.
U32(hi, lo) == [hi |-> hi, lo |-> lo]

\* u32::from_be_bytes of a DMI data word
u32_from_be_bytes(b) == U32(b[1] * 256 + b[2], b[3] * 256 + b[4])

\* u32::to_be_bytes of a DMI data word
u32_to_be_bytes(x) == << x.hi \div 256, x.hi % 256, x.lo \div 256, x.lo % 256 >>

-----------------------------------------------------------------------------
(* Command codec.                                                          *)

\* Command::to_raw: vec![0x81, COMMAND_ID, 0x00] ++ payload, then
\* bytes[2] = bytes.len() as u8 - 3 (8-bit arithmetic)
to_raw_short_len(command_id, payload) ==
    LET bytes == <<129, command_id, 0>> \o payload
    IN  [bytes EXCEPT ![3] = (Len(bytes) % 256) % 256]

to_raw(command_id, payload) ==
    LET bytes == <<129, command_id, 0>> \o payload
    IN  [bytes EXCEPT ![3] = ((Len(bytes) % 256) - 3) % 256]

\* The chip-family table: RiscvChip and its u8 discriminants
RiscvChipCode ==
    [ CH32V103 |-> 1, CH57X |-> 2, CH56X |-> 3, CH32V20X |-> 5, CH32V30X |-> 6,
      CH582 |-> 7, CH32V003 |-> 9, CH8571 |-> 10, CH59X |-> 11, CH643 |-> 12,
      CH32X035 |-> 13, CH32L103 |-> 14, CH641 |-> 73, CH585 |-> 75,
      Unknown0x0F |-> 15, Unknown0x4E |-> 78, Unknown0x46 |-> 70,
      Unknown0x86 |-> 134 ]

RiscvChip == DOMAIN RiscvChipCode

\* RiscvChip::try_from_u8
try_from_u8(value) ==
    CASE value = 1  -> Ok("CH32V103")
      [] value = 2  -> Ok("CH57X")
      [] value = 3  -> Ok("CH56X")
      [] value = 5  -> Ok("CH32V20X")
      [] value = 6  -> Ok("CH32V30X")
      [] value = 7  -> Ok("CH582")
      [] value = 9  -> Ok("CH32V003")
      [] value = 10 -> Ok("CH8571")
      [] value = 11 -> Ok("CH59X")
      [] value = 12 -> Ok("CH643")
      [] value = 13 -> Ok("CH32X035")
      [] value = 14 -> Ok("CH32L103")
      [] value = 73 -> Ok("CH641")
      [] value = 75 -> Ok("CH585")
      [] OTHER      -> Err("UnknownChip", value, <<>>)

\* WchLinkVariant::try_from_u8
variant_try_from_u8(value) ==
    CASE value = 1           -> Ok("Ch549")
      [] value \in {2, 18}   -> Ok("ECh32v305")
      [] value = 3           -> Ok("SCh32v203")
      [] value \in {5, 133}  -> Ok("WCh32v208")
      [] OTHER               -> Err("UnknownLinkVariant", value, <<>>)

\* Response::from_payload of each response type
from_payload(rtype, bytes) ==
    CASE rtype = "unit" -> Ok(<<>>)
      [] rtype = "vec"  -> Ok(bytes)
      [] rtype = "u8"   ->
            IF Len(bytes) # 1 THEN Err("InvalidPayloadLength", 0, <<>>)
            ELSE Ok(bytes[1])
      [] rtype = "bool" ->
            IF Len(bytes) # 1 THEN Err("InvalidPayloadLength", 0, <<>>)
            ELSE Ok(bytes[1] = 1)
      [] rtype = "AttachChipResponse" ->
            IF Len(bytes) # 5 THEN Err("InvalidPayloadLength", 0, <<>>)
            ELSE LET f == try_from_u8(bytes[1])
                 IN  IF f.kind # "Ok" THEN f
                     ELSE Ok([chip_family |-> f.val, riscvchip |-> bytes[1],
                              chip_id |-> from_be_bytes(SubSeq(bytes, 2, 5))])
      [] rtype = "ProbeInfo" ->
            IF Len(bytes) < 3 THEN Err("InvalidPayloadLength", 0, <<>>)
            ELSE LET v == IF Len(bytes) = 4 THEN variant_try_from_u8(bytes[3])
                          ELSE Ok("Ch549")
                 IN  IF v.kind # "Ok" THEN v
                     ELSE Ok([major_version |-> bytes[1],
                              minor_version |-> bytes[2], variant |-> v.val])
      [] rtype = "DmiOpResponse" ->
            IF Len(bytes) # 6 THEN Err("InvalidPayloadLength", 0, <<>>)
            ELSE Ok([addr |-> bytes[1], op |-> bytes[6],
                     data |-> u32_from_be_bytes(SubSeq(bytes, 2, 5))])

\* Response::from_raw, the default decoder.  Indexing resp[0], resp[1],
\* resp[2] or resp[3..] past the end of the slice panics.
from_raw_unchecked_len(rtype, resp) ==
    IF Len(resp) < 1 THEN Panic("index out of bounds")
    ELSE IF resp[1] = 129 THEN
        IF Len(resp) < 3 THEN Panic("index out of bounds")
        ELSE IF resp[3] # Len(Tail3(resp)) THEN Err("InvalidPayloadLength", 0, <<>>)
        ELSE Err("Protocol", resp[2], resp)
    ELSE IF resp[1] = 130 THEN
        IF Len(resp) < 3 THEN Panic("index out of bounds")
        ELSE from_payload(rtype, SubSeq(resp, 4, 3 + resp[3]))
    ELSE Err("InvalidPayload", 0, <<>>)

from_raw_payload_as_frame(rtype, resp) ==
    IF Len(resp) < 1 THEN Panic("index out of bounds")
    ELSE IF resp[1] = 129 THEN
        IF Len(resp) < 3 THEN Panic("index out of bounds")
        ELSE IF resp[3] # Len(Tail3(resp)) THEN Err("InvalidPayloadLength", 0, <<>>)
        ELSE Err("Protocol", resp[2], SubSeq(resp, 4, 3 + resp[3]))
    ELSE IF resp[1] = 130 THEN
        IF Len(resp) < 3 THEN Panic("index out of bounds")
        ELSE IF resp[3] # Len(Tail3(resp)) THEN Err("InvalidPayloadLength", 0, <<>>)
        ELSE from_payload(rtype, SubSeq(resp, 4, 3 + resp[3]))
    ELSE Err("InvalidPayload", 0, <<>>)

\* from_raw that takes the payload from the length byte on
from_raw_payload_from_len(rtype, resp) ==
    IF Len(resp) < 1 THEN Panic("index out of bounds")
    ELSE IF resp[1] = 129 THEN
        IF Len(resp) < 3 THEN Panic("index out of bounds")
        ELSE IF resp[3] # Len(Tail3(resp)) THEN Err("InvalidPayloadLength", 0, <<>>)
        ELSE Err("Protocol", resp[2], resp)
    ELSE IF resp[1] = 130 THEN
        IF Len(resp) < 3 THEN Panic("index out of bounds")
        ELSE IF resp[3] # Len(Tail3(resp)) THEN Err("InvalidPayloadLength", 0, <<>>)
        ELSE from_payload(rtype, SubSeq(resp, 3, 2 + resp[3]))
    ELSE Err("InvalidPayload", 0, <<>>)

from_raw(rtype, resp) ==
    IF Len(resp) < 1 THEN Panic("index out of bounds")
    ELSE IF resp[1] = 129 THEN
        IF Len(resp) < 3 THEN Panic("index out of bounds")
        ELSE IF resp[3] # Len(Tail3(resp)) THEN Err("InvalidPayloadLength", 0, <<>>)
        ELSE Err("Protocol", resp[2], resp)
    ELSE IF resp[1] = 130 THEN
        IF Len(resp) < 3 THEN Panic("index out of bounds")
        ELSE IF resp[3] # Len(Tail3(resp)) THEN Err("InvalidPayloadLength", 0, <<>>)
        ELSE from_payload(rtype, SubSeq(resp, 4, 3 + resp[3]))
    ELSE Err("InvalidPayload", 0, <<>>)

-----------------------------------------------------------------------------
(* Typed commands: command ID, payload and response type.                  *)

Command(id, payload, rtype) == [id |-> id, payload |-> payload, rtype |-> rtype]

\* control::GetProbeInfo (0x0d, 0x01)
GetProbeInfo == Command(13, <<1>>, "ProbeInfo")

\* control::AttachChip (0x0d, 0x02)
AttachChip == Command(13, <<2>>, "AttachChipResponse")

\* control::OptEnd (0x0d, 0xff)
OptEnd == Command(13, <<255>>, "unit")

\* SetSpeed { riscvchip, speed } (0x0c)
SetSpeed(riscvchip, spd) == Command(12, <<riscvchip, spd>>, "bool")

\* RawCommand::<N>(bytes)
RawCommand(n, bytes) == Command(n, bytes, "vec")

\* ConfigChip (0x06): CheckReadProtect, Unprotect, Protect, UnprotectEx(b),
\* ProtectEx(b)
ConfigChip(which, b) ==
    Command(6,
            CASE which = "CheckReadProtect" -> <<1>>
              [] which = "Unprotect"        -> <<2>>
              [] which = "Protect"          -> <<3>>
              [] which = "UnprotectEx"      -> <<2, b, 255, 255, 255, 255, 255, 255>>
              [] which = "ProtectEx"        -> <<3, b, 255, 255, 255, 255, 255, 255>>,
            "u8")

\* Program (0x02): the opcode is the payload
ProgramCode ==
    [ EraseFlash |-> 1, WriteFlash |-> 2, WriteFlashAndVerify |-> 4,
      WriteFlashOP |-> 5, Prepare |-> 6, Unknown07AfterFlashOPWritten |-> 7,
      Unknown0BAfterFlashOPWritten |-> 11, End |-> 8, ReadMemory |-> 12 ]

Program(which) == Command(2, <<ProgramCode[which]>>, "u8")

\* Reset (0x0b): ResetAndRun
ResetAndRun == Command(11, <<1>>, "unit")

\* SetWriteMemoryRegion { start_addr, len } (0x01)
SetWriteMemoryRegion(start_addr, len) ==
    Command(1, to_be_bytes(start_addr) \o to_be_bytes(len), "unit")

\* SetReadMemoryRegion { start_addr, len } (0x03)
SetReadMemoryRegion(start_addr, len) ==
    Command(3, to_be_bytes(start_addr) \o to_be_bytes(len), "unit")

\* control::EraseCodeFlash (0x0d): ByPinRST(c) is [0x08, c], ByPowerOff(c)
\* is [0x0f, c]
EraseCodeFlash(how, c) ==
    Command(13,
            CASE how = "ByPinRST"   -> <<8, RiscvChipCode[c]>>
              [] how = "ByPowerOff" -> <<15, RiscvChipCode[c]>>,
            "unit")

\* DmiOp::read(addr) (0x08): [addr, 0, 0, 0, 0, DMI_OP_READ]
DmiOpRead(addr) == Command(8, <<addr, 0, 0, 0, 0, 1>>, "DmiOpResponse")

\* DmiOp::write(addr, data) (0x08): [addr, data.to_be_bytes(), DMI_OP_WRITE]
DmiOpWrite(addr, data) ==
    Command(8, <<addr>> \o u32_to_be_bytes(data) \o <<2>>, "DmiOpResponse")

\* DmiOpResponse::is_busy
is_busy(resp) == resp.op = 3

\* DmiOpResponse::is_success
is_success(resp) == resp.op = 0

-----------------------------------------------------------------------------
(* Register images of src/src/regs.rs: a u32 with named bit fields.        *)

\* bit i of a u32
bit(x, i) ==
    IF i < 16 THEN (x.lo \div (2 ^ i)) % 2 = 1
    ELSE (x.hi \div (2 ^ (i - 16))) % 2 = 1

\* DMReg::ADDR of the debug-module registers the driver touches
DATA0 == 4
DMCONTROL == 16
DMSTATUS == 17
ABSTRACTCS == 22
COMMAND == 23
PROGBUF0 == 32
PROGBUF1 == 33

\* Dmstatus::allhalted, anyhalted, allrunning, anyrunning, allresumeack,
\* anyresumeack
allhalted(x) == bit(x, 9)
anyhalted(x) == bit(x, 8)
allrunning(x) == bit(x, 11)
anyrunning(x) == bit(x, 10)
allresumeack(x) == bit(x, 17)
anyresumeack(x) == bit(x, 16)

\* Dmcontrol::haltreq, resumereq
haltreq(x) == bit(x, 31)
resumereq(x) == bit(x, 30)

\* Dmcontrol::set_ackhavereset(true): bit 29
set_ackhavereset(x) ==
    IF bit(x, 29) THEN x ELSE U32(x.hi + 8192, x.lo)

\* Abstractcs::busy: bit 12
abstractcs_busy(x) == bit(x, 12)

\* a field four bits wide where the register has three
cmderr_four_bits(x) == (x.lo \div 256) % 16

\* Abstractcs::cmderr: bits 10..8
cmderr(x) == (x.lo \div 256) % 8

\* Abstractcs::set_cmderr(value): bits 10..8 replaced
set_cmderr(x, value) ==
    U32(x.hi, x.lo - cmderr(x) * 256 + (value % 8) * 256)

\* enum AbstractcsCmdErr: the variants and their discriminants
AbstractcsCmdErr ==
    [Busy |-> 1, NotSupported |-> 2, Exception |-> 3, HaltOrResume |-> 4,
     Bus |-> 5, Parity |-> 6, Other |-> 7]

\* AbstractcsCmdErr::try_from_cmderr(value: u8); the error carries the
\* variant
try_from_cmderr(value) ==
    CASE value = 0 -> Ok(<<>>)
      [] value = 1 -> Err("AbstractCommandError", AbstractcsCmdErr.Busy, <<>>)
      [] value = 2 -> Err("AbstractCommandError", AbstractcsCmdErr.NotSupported, <<>>)
      [] value = 3 -> Err("AbstractCommandError", AbstractcsCmdErr.Exception, <<>>)
      [] value = 4 -> Err("AbstractCommandError", AbstractcsCmdErr.HaltOrResume, <<>>)
      [] value = 5 -> Err("AbstractCommandError", AbstractcsCmdErr.Bus, <<>>)
      [] value = 6 -> Err("AbstractCommandError", AbstractcsCmdErr.Parity, <<>>)
      [] value = 7 -> Err("AbstractCommandError", AbstractcsCmdErr.Other, <<>>)
      [] OTHER     -> Panic("unreachable")

-----------------------------------------------------------------------------
(* Chip-family and probe-variant tables.                                   *)

\* RiscvChip::support_flash_protect
support_flash_protect(c) ==
    c \in {"CH32V103", "CH32V20X", "CH32V30X", "CH32V003", "CH643", "CH32L103",
           "CH32X035", "CH641"}

\* RiscvChip::data_packet_size
data_packet_size(c) ==
    CASE c = "CH32V103"              -> 128
      [] c \in {"CH32V003", "CH641"} -> 64
      [] OTHER                       -> 256

\* a pack size of 1000 bytes for the families with 64-byte packets
write_pack_size_1000(c) ==
    CASE c \in {"CH32V003", "CH641"} -> 1000
      [] c = "Unknown0x4E"           -> 1024
      [] OTHER                       -> 4096

\* RiscvChip::write_pack_size
write_pack_size(c) ==
    CASE c \in {"CH32V003", "CH641"} -> 1024
      [] c = "Unknown0x4E"           -> 1024
      [] OTHER                       -> 4096

\* WchLinkVariant::support_chip
support_chip(variant, c) ==
    CASE variant = "Ch549"     -> c \notin {"CH32V003", "CH32X035", "CH643"}
      [] variant = "WCh32v208" -> c \notin {"CH56X", "CH57X", "CH58X", "CH59X"}
      [] OTHER                 -> TRUE

\* WchLinkVariant::support_power_funcs
support_power_funcs(variant) == variant \in {"WCh32v208", "ECh32v305"}

\* RiscvChip::support_special_erase
support_special_erase(c) == c \notin {"CH57X", "CH56X", "CH582", "CH585", "CH59X"}

\* the comparison of the minor version alone
version_minor_ge_9(p) ==
    p.major_version >= 2 /\ p.minor_version >= 9

\* ProbeInfo::version() >= (2, 9), tuples compared lexicographically
version_ge_2_9(p) ==
    p.major_version > 2 \/ (p.major_version = 2 /\ p.minor_version >= 9)

-----------------------------------------------------------------------------
(* The probe on the other end of the cable.  It answers a request frame    *)
(* with a response frame; `dev.prot` is the target's read-protect status   *)
(* (1 protected, 2 unprotected, anything else unknown).                    *)

(* The debug module of the target, behind the probe.  In a DMI session    *)
(* `dev` is its state:                                                     *)
(*   halted, resumeack   the hart, as dmstatus reports it                  *)
(*   cmderr, acbusy      abstractcs.cmderr (sticky) and abstractcs.busy     *)
(*   data0               the data0 register                                *)
(*   busy                the Reads it will still answer with op = busy     *)
(*   glitch              what it answers once, after that: "failed"        *)
(*                       (op = 2), "sentinel" (the not-attached answer)     *)
(*                       or "none"                                         *)
(*   lag                 the halt requests it will still ignore            *)
(*   resume_ok           whether the hart follows a resume request         *)
(*   fault_at, fault_err, fault_busy                                       *)
(*                       the fault_at-th abstract command from now ends    *)
(*                       with cmderr = fault_err, or is still busy when     *)
(*                       abstractcs is read next (0: none does)            *)

\* the word a debug-module register reads as
dm_register(d, addr) ==
    CASE addr = DMSTATUS ->
            U32(IF d.resumeack THEN 3 ELSE 0,
                (IF d.halted THEN 768 ELSE 3072) + 130)
      [] addr = DMCONTROL  -> U32(0, 1)
      [] addr = ABSTRACTCS ->
            U32(2048, (IF d.acbusy THEN 4096 ELSE 0) + d.cmderr * 256 + 2)
      [] addr = DATA0      -> d.data0
      [] OTHER             -> U32(0, 0)

\* cmderr after a write of `value` to the field: write-1-to-clear
w1c(cur, value) ==
    (IF cur % 2 = 1 /\ value % 2 = 0 THEN 1 ELSE 0)
    + (IF (cur \div 2) % 2 = 1 /\ (value \div 2) % 2 = 0 THEN 2 ELSE 0)
    + (IF (cur \div 4) % 2 = 1 /\ (value \div 4) % 2 = 0 THEN 4 ELSE 0)

\* the debug module after a write of `data` to register `addr`.  An
\* abstract command is ignored while cmderr is set, fails with
\* HaltOrResume (4) on a running hart, and otherwise runs: a register read
\* (transfer without write) leaves the register's value in data0.
dm_write(d, addr, data) ==
    CASE addr = DMCONTROL ->
            IF haltreq(data)
            THEN IF d.lag = 0 THEN [d EXCEPT !.halted = TRUE]
                 ELSE [d EXCEPT !.lag = @ - 1]
            ELSE IF resumereq(data) /\ d.resume_ok
            THEN [d EXCEPT !.halted = FALSE, !.resumeack = TRUE]
            ELSE d
      [] addr = ABSTRACTCS -> [d EXCEPT !.cmderr = w1c(@, cmderr(data))]
      [] addr = DATA0      -> [d EXCEPT !.data0 = data]
      [] addr = COMMAND ->
            IF d.cmderr # 0 THEN d
            ELSE IF ~d.halted THEN [d EXCEPT !.cmderr = 4]
            ELSE IF d.fault_at = 1
            THEN IF d.fault_busy THEN [d EXCEPT !.fault_at = 0, !.acbusy = TRUE]
                 ELSE [d EXCEPT !.fault_at = 0, !.cmderr = d.fault_err]
            ELSE LET d1 == [d EXCEPT !.fault_at = IF @ > 1 THEN @ - 1 ELSE @]
                 IN  IF bit(data, 17) /\ ~bit(data, 16)
                     THEN [d1 EXCEPT !.data0 = U32(51966, data.lo)]
                     ELSE d1
      [] OTHER -> d

\* the probe's answer to a DmiOp (0x08) request: [addr, data, op] with op
\* 0 = success, 2 = failed, 3 = busy
DmiResponses(d, payload) ==
    LET addr == payload[1]
        data == u32_from_be_bytes(SubSeq(payload, 2, 5))
        answer(a, x, status) == <<130, 8, 6, a>> \o u32_to_be_bytes(x) \o <<status>>
    IN  CASE payload[6] = 1 ->
               IF d.busy > 0
               THEN {[frame |-> answer(addr, U32(0, 0), 3),
                      dev |-> [d EXCEPT !.busy = @ - 1]]}
               ELSE IF d.glitch = "failed"
               THEN {[frame |-> answer(addr, U32(0, 0), 2),
                      dev |-> [d EXCEPT !.glitch = "none"]]}
               ELSE IF d.glitch = "sentinel"
               THEN {[frame |-> answer(125, U32(65535, 65535), 3),
                      dev |-> [d EXCEPT !.glitch = "none"]]}
               ELSE {[frame |-> answer(addr, dm_register(d, addr), 0),
                      dev |-> IF addr = ABSTRACTCS THEN [d EXCEPT !.acbusy = FALSE]
                              ELSE d]}
          [] payload[6] = 2 ->
               {[frame |-> answer(addr, data, 0), dev |-> dm_write(d, addr, data)]}
          [] OTHER ->
               {[frame |-> answer(addr, U32(0, 0), 0), dev |-> d]}

\* [0x82, CMD, LEN, payload]
OkFrame(id, payload) == <<130, id, Len(payload)>> \o payload

\* [0x81, 0x55, 0x01, 0x01]: the probe's "chip not attached" error
NotAttachedFrame == <<129, 85, 1, 1>>

\* the probe's answers to a request it received; also the target's state
\* after the request
Responses(d, raw) ==
    LET id == raw[2]
        payload == Tail3(raw)
    IN  CASE id = 13 /\ payload = <<1>> ->
               {[frame |-> OkFrame(13, <<d.major, d.minor, d.variant, 0>>), dev |-> d]}
          [] id = 13 /\ payload = <<2>> ->
               {[frame |-> OkFrame(13, <<d.family, 48, 112, 5, 24>>), dev |-> d],
                [frame |-> NotAttachedFrame, dev |-> d]}
          [] id = 12 ->
               {[frame |-> OkFrame(12, <<1>>), dev |-> d]}
          [] id = 6 /\ payload[1] = 1 ->
               {[frame |-> OkFrame(6, <<d.prot>>), dev |-> d]}
          [] id = 6 /\ payload[1] = 2 ->
               {[frame |-> OkFrame(6, <<2>>), dev |-> [d EXCEPT !.prot = 2]]}
          [] id = 6 /\ payload[1] = 3 ->
               {[frame |-> OkFrame(6, <<3>>), dev |-> [d EXCEPT !.prot = 1]]}
          [] id = 2 /\ payload = <<7>> ->
               {[frame |-> OkFrame(2, <<7>>), dev |-> d],
                [frame |-> OkFrame(2, <<0>>), dev |-> d]}
          [] id = 2 ->
               {[frame |-> OkFrame(2, payload), dev |-> d]}
          [] id = 8 -> DmiResponses(d, payload)
          [] OTHER ->
               {[frame |-> OkFrame(id, <<1>>), dev |-> d]}

\* endpoint events, as they are kept in `wire`
CtrlOut(frame, ok) ==
    [ep |-> "ctrl", dir |-> "out", ok |-> ok, frame |-> frame, what |-> "", n |-> 0]

CtrlIn(frame, ok) ==
    [ep |-> "ctrl", dir |-> "in", ok |-> ok, frame |-> frame, what |-> "", n |-> 0]

DataOut(what, n, ok) ==
    [ep |-> "data", dir |-> "out", ok |-> ok, frame |-> <<>>, what |-> what, n |-> n]

DataIn(frame, ok) ==
    [ep |-> "data", dir |-> "in", ok |-> ok, frame |-> frame, what |-> "", n |-> 0]

\* marks the entry of the family's post-attach hook
Hook(c) ==
    [ep |-> "hook", dir |-> "", ok |-> TRUE, frame |-> <<>>, what |-> c, n |-> 0]

-----------------------------------------------------------------------------
(* The session: WchLink { device_handle, chip, probe, speed } and the       *)
(* traffic of the running operation.  An operation maps a session to the   *)
(* set of sessions it can end in, one per way the probe can behave.        *)

NoneChipInfo == [some |-> FALSE, chip_family |-> "", chip_id |-> 0]

SomeChipInfo(f, id) == [some |-> TRUE, chip_family |-> f, chip_id |-> id]

NoneProbeInfo ==
    [some |-> FALSE, major_version |-> 0, minor_version |-> 0, variant |-> ""]

SomeProbeInfo(p) ==
    [some |-> TRUE, major_version |-> p.major_version,
     minor_version |-> p.minor_version, variant |-> p.variant]

\* `return r` from an operation: the session with the operation's Result
Return(w, r) ==
    [w EXCEPT !.res = [kind |-> r.kind, err |-> r.err, code |-> r.code,
                       bytes |-> r.bytes, val |-> <<>>]]

\* WchLink::send_command: to_raw, write the control endpoint, read the
\* control endpoint, from_raw.  A USB error on the write returns before
\* the read.
send_command_no_read_for_unit(w, cmd) ==
    LET raw == to_raw(cmd.id, cmd.payload)
    IN  {[w |-> [w EXCEPT !.wire = Append(@, CtrlOut(raw, FALSE))],
          r |-> Err("Rusb", 0, <<>>)]}
        \cup
        (IF cmd.rtype = "unit"
         THEN {[w |-> [w EXCEPT !.wire = Append(@, CtrlOut(raw, TRUE)), !.dev = a.dev],
                r |-> Ok(<<>>)] : a \in Responses(w.dev, raw)}
         ELSE {[w |-> [w EXCEPT !.wire = @ \o <<CtrlOut(raw, TRUE), CtrlIn(a.frame, TRUE)>>,
                                !.dev = a.dev],
                r |-> from_raw(cmd.rtype, a.frame)] : a \in Responses(w.dev, raw)})

send_command(w, cmd) ==
    LET raw == to_raw(cmd.id, cmd.payload)
    IN  {[w |-> [w EXCEPT !.wire = Append(@, CtrlOut(raw, FALSE))],
          r |-> Err("Rusb", 0, <<>>)]}
        \cup
        {[w |-> [w EXCEPT !.wire = @ \o <<CtrlOut(raw, TRUE), CtrlIn(<<>>, FALSE)>>,
                          !.dev = a.dev],
          r |-> Err("Rusb", 0, <<>>)] : a \in Responses(w.dev, raw)}
        \cup
        {[w |-> [w EXCEPT !.wire = @ \o <<CtrlOut(raw, TRUE), CtrlIn(a.frame, TRUE)>>,
                          !.dev = a.dev],
          r |-> from_raw(cmd.rtype, a.frame)] : a \in Responses(w.dev, raw)}

\* `let v = X?; K(v)`: on Err (or a panic) the operation returns at once
Try(X, K(_, _)) ==
    UNION {IF x.r.kind = "Ok" THEN K(x.w, x.r.val) ELSE {Return(x.w, x.r)} : x \in X}

\* `S?; K`: S is an operation, K runs on each session it ended Ok in
Then(S, K(_)) ==
    UNION {IF s.res.kind = "Ok" THEN K(s) ELSE {s} : s \in S}

\* WchLink::probe_info
probe_info(w) ==
    {[w |-> IF x.r.kind = "Ok" THEN [x.w EXCEPT !.probe = SomeProbeInfo(x.r.val)]
            ELSE x.w,
      r |-> x.r] : x \in send_command(w, GetProbeInfo)}

\* RiscvChip::do_post_init, the family's post-attach hook
post_init(c, w) ==
    LET w0 == [w EXCEPT !.wire = Append(@, Hook(c))]
    IN  CASE c = "CH32V103" ->
               Try(send_command(w0, RawCommand(13, <<3>>)),
                   LAMBDA w1, v : {Return(w1, Ok(<<>>))})
          [] c = "CH56X" ->
               Try(send_command(w0, RawCommand(13, <<4>>)),
                   LAMBDA w1, v : {Return(w1, Ok(<<>>))})
          [] OTHER -> {Return(w0, Ok(<<>>))}

\* attach_chip's loop with three faults that can each be switched on: it
\* tries `tries` times instead of three, it retries after a family mismatch
\* instead of returning, it re-sends SetSpeed whether or not a family was
\* expected
RECURSIVE attach_loop_faulty(_, _, _, _, _, _)
attach_loop_faulty(w, expected_chip, i, tries, retry_mismatch, always_resend) ==
    IF i = tries THEN {[w |-> w, r |-> Err("NotAttached", 0, <<>>)]}
    ELSE UNION {
        IF s.r.kind # "Ok" THEN {s}
        ELSE UNION {
            IF a.r.kind = "Ok" THEN
                IF expected_chip # "None" /\ a.r.val.chip_family # expected_chip
                THEN IF retry_mismatch
                     THEN attach_loop_faulty(a.w, expected_chip, i + 1, tries,
                                             retry_mismatch, always_resend)
                     ELSE {[w |-> a.w,
                            r |-> Err("ChipMismatch", 0,
                                      <<RiscvChipCode[expected_chip],
                                        RiscvChipCode[a.r.val.chip_family]>>)]}
                ELSE IF expected_chip = "None" \/ always_resend
                THEN {[w |-> y.w, r |-> IF y.r.kind = "Ok" THEN a.r ELSE y.r] :
                        y \in send_command(a.w,
                                 SetSpeed(RiscvChipCode[a.r.val.chip_family], a.w.speed))}
                ELSE {[w |-> a.w, r |-> a.r]}
            ELSE attach_loop_faulty(a.w, expected_chip, i + 1, tries,
                                    retry_mismatch, always_resend)
            : a \in send_command(s.w, AttachChip)}
        : s \in send_command(w, SetSpeed(
                    IF expected_chip = "None" THEN RiscvChipCode["CH32V103"]
                    ELSE RiscvChipCode[expected_chip], w.speed))}

\* the loop running `for _ in 0..4`
attach_loop_four_tries(w, expected_chip, i) ==
    attach_loop_faulty(w, expected_chip, i, 4, FALSE, FALSE)

\* the loop going on to its next attempt when the family is not the
\* expected one
attach_loop_retry_mismatch(w, expected_chip, i) ==
    attach_loop_faulty(w, expected_chip, i, 3, TRUE, FALSE)

\* the loop without the `if expected_chip.is_none()` around the second
\* SetSpeed
attach_loop_always_resend(w, expected_chip, i) ==
    attach_loop_faulty(w, expected_chip, i, 3, FALSE, TRUE)

\* the retry loop of attach_chip (`for _ in 0..3`), from iteration i on,
\* with chip_info.ok_or(NotAttached): the sessions and the chip_info (or
\* the error returned) it ends with
RECURSIVE attach_loop(_, _, _)
attach_loop(w, expected_chip, i) ==
    IF i = 3 THEN {[w |-> w, r |-> Err("NotAttached", 0, <<>>)]}
    ELSE UNION {
        IF s.r.kind # "Ok" THEN {s}
        ELSE UNION {
            IF a.r.kind = "Ok" THEN
                IF expected_chip # "None" /\ a.r.val.chip_family # expected_chip
                THEN {[w |-> a.w,
                       r |-> Err("ChipMismatch", 0,
                                 <<RiscvChipCode[expected_chip],
                                   RiscvChipCode[a.r.val.chip_family]>>)]}
                ELSE IF expected_chip = "None"
                THEN {[w |-> y.w, r |-> IF y.r.kind = "Ok" THEN a.r ELSE y.r] :
                        y \in send_command(a.w,
                                 SetSpeed(RiscvChipCode[a.r.val.chip_family], a.w.speed))}
                ELSE {[w |-> a.w, r |-> a.r]}
            ELSE attach_loop(a.w, expected_chip, i + 1)
            : a \in send_command(s.w, AttachChip)}
        : s \in send_command(w, SetSpeed(
                    IF expected_chip = "None" THEN RiscvChipCode["CH32V103"]
                    ELSE RiscvChipCode[expected_chip], w.speed))}

\* WchLink::attach_chip(expected_chip)
attach_chip(w, expected_chip) ==
    Try(probe_info(w), LAMBDA w1, info :
        IF expected_chip # "None" /\ ~support_chip(info.variant, expected_chip)
        THEN {Return(w1, Err("UnsupportedChip", RiscvChipCode[expected_chip], <<>>))}
        ELSE Try(attach_loop(w1, expected_chip, 0), LAMBDA w2, chip_info :
                Then(post_init(chip_info.chip_family, w2), LAMBDA w3 :
                    {[w3 EXCEPT !.chip = SomeChipInfo(chip_info.chip_family,
                                                      chip_info.chip_id),
                                !.probe = SomeProbeInfo(info),
                                !.res = Ok(<<>>)]})))

\* WchLink::detach_chip
detach_chip(w) ==
    Try(send_command(w, OptEnd), LAMBDA w1, v :
        {[w1 EXCEPT !.chip = NoneChipInfo, !.res = Ok(<<>>)]})

\* WchLink::reattach_chip
reattach_chip(w) ==
    LET current_chip_family == IF w.chip.some THEN w.chip.chip_family ELSE "None"
    IN  Then(detach_chip(w), LAMBDA w1 : attach_chip(w1, current_chip_family))

\* protect_flash without the fresh attach in front
protect_flash_no_reattach(w, protect) ==
      Try(send_command(w, ConfigChip("CheckReadProtect", 0)), LAMBDA w2, flag :
        IF ~w2.probe.some THEN {Return(w2, Panic("unwrap on None: probe"))}
        ELSE
        LET use_v2 == version_ge_2_9(w2.probe)
            cmd == CASE protect /\ use_v2   -> ConfigChip("ProtectEx", 191)
                     [] protect /\ ~use_v2  -> ConfigChip("Protect", 0)
                     [] ~protect /\ use_v2  -> ConfigChip("UnprotectEx", 191)
                     [] ~protect /\ ~use_v2 -> ConfigChip("Unprotect", 0)
        IN  Try(send_command(w2, cmd), LAMBDA w3, v3 :
              Try(send_command(w3, ResetAndRun), LAMBDA w4, v4 :
                Try(send_command(w4, AttachChip), LAMBDA w5, v5 :
                  Try(send_command(w5, ConfigChip("CheckReadProtect", 0)),
                      LAMBDA w6, v6 : {Return(w6, Ok(<<>>))})))))

\* WchLink::protect_flash(protect)
protect_flash(w, protect) ==
    Then(reattach_chip(w), LAMBDA w1 :
      Try(send_command(w1, ConfigChip("CheckReadProtect", 0)), LAMBDA w2, flag :
        IF ~w2.probe.some THEN {Return(w2, Panic("unwrap on None: probe"))}
        ELSE
        LET use_v2 == version_ge_2_9(w2.probe)
            cmd == CASE protect /\ use_v2   -> ConfigChip("ProtectEx", 191)
                     [] protect /\ ~use_v2  -> ConfigChip("Protect", 0)
                     [] ~protect /\ use_v2  -> ConfigChip("UnprotectEx", 191)
                     [] ~protect /\ ~use_v2 -> ConfigChip("Unprotect", 0)
        IN  Try(send_command(w2, cmd), LAMBDA w3, v3 :
              Try(send_command(w3, ResetAndRun), LAMBDA w4, v4 :
                Try(send_command(w4, AttachChip), LAMBDA w5, v5 :
                  Try(send_command(w5, ConfigChip("CheckReadProtect", 0)),
                      LAMBDA w6, v6 : {Return(w6, Ok(<<>>))}))))))

\* WchLink::erase_flash
erase_flash(w) ==
    IF ~w.chip.some THEN {Return(w, Panic("unwrap on None: chip"))}
    ELSE
    LET erase(w0) ==
            Try(send_command(w0, Program("EraseFlash")), LAMBDA w1, v1 :
              Try(send_command(w1, AttachChip), LAMBDA w2, v2 :
                {Return(w2, Ok(<<>>))}))
    IN  IF support_flash_protect(w.chip.chip_family)
        THEN Try(send_command(w, ConfigChip("CheckReadProtect", 0)), LAMBDA w1, ret :
                IF ret = 1 THEN Then(protect_flash(w1, FALSE), erase)
                ELSE IF ret = 2 THEN Then(protect_flash(w1, FALSE), erase)
                ELSE erase(w1))
        ELSE erase(w)

\* write_data_endpoint(buf, packet_len): buf goes out on data-OUT in
\* packets; a USB error ends it
write_data_endpoint(w, what, n) ==
    {[w EXCEPT !.wire = Append(@, DataOut(what, n, TRUE)), !.res = Ok(<<>>)],
     Return([w EXCEPT !.wire = Append(@, DataOut(what, n, FALSE))], Err("Rusb", 0, <<>>))}

\* read_data_endpoint(4): the acknowledgement of a chunk (41 01 01 04 is
\* success, 05 a failure code), or a USB error
read_data_endpoint4(w) ==
    {[w |-> [w EXCEPT !.wire = Append(@, DataIn(<<65, 1, 1, 4>>, TRUE))],
      r |-> Ok(<<65, 1, 1, 4>>)],
     [w |-> [w EXCEPT !.wire = Append(@, DataIn(<<65, 1, 1, 5>>, TRUE))],
      r |-> Ok(<<65, 1, 1, 5>>)],
     [w |-> [w EXCEPT !.wire = Append(@, DataIn(<<>>, FALSE))],
      r |-> Err("Rusb", 0, <<>>)]}

Min(a, b) == IF a < b THEN a ELSE b

\* the fastprogram loop going on to the next chunk whatever the
\* acknowledgement says
RECURSIVE write_chunks_ignore_ack(_, _, _)
write_chunks_ignore_ack(w, remaining, pack) ==
    IF remaining = 0 THEN {Return(w, Ok(<<>>))}
    ELSE Then(write_data_endpoint(w, "chunk", Min(remaining, pack)), LAMBDA w1 :
            Try(read_data_endpoint4(w1), LAMBDA w2, rxbuf :
                write_chunks_ignore_ack(w2, remaining - Min(remaining, pack), pack)))

\* the fastprogram loop of write_flash, `for chunk in
\* data.chunks(write_pack_size)`, with `remaining` bytes still to send
RECURSIVE write_chunks(_, _, _)
write_chunks(w, remaining, pack) ==
    IF remaining = 0 THEN {Return(w, Ok(<<>>))}
    ELSE Then(write_data_endpoint(w, "chunk", Min(remaining, pack)), LAMBDA w1 :
            Try(read_data_endpoint4(w1), LAMBDA w2, rxbuf :
                IF rxbuf[4] # 4
                THEN {Return(w2, Err("Custom", 0, rxbuf))}
                ELSE write_chunks(w2, remaining - Min(remaining, pack), pack)))

\* write_flash sending the flash helper before the WriteFlashOP command
write_flash_helper_first(w, len, address) ==
    IF ~w.chip.some THEN {Return(w, Panic("unwrap on None: chip"))}
    ELSE
    LET chip_family == w.chip.chip_family
        pack == write_pack_size(chip_family)
        program(w0) ==
          IF ~w0.chip.some THEN {Return(w0, Panic("unwrap on None: chip"))}
          ELSE
          Try(send_command(w0, SetWriteMemoryRegion(address, len)), LAMBDA w1, v1 :
            Then(write_data_endpoint(w1, "flash_op", data_packet_size(chip_family)),
              LAMBDA w2 :
              Try(send_command(w2, Program("WriteFlashOP")), LAMBDA w3, v3 :
                Try(send_command(w3, Program("Unknown07AfterFlashOPWritten")),
                  LAMBDA w4, n :
                  IF n # 7 THEN {Return(w4, Err("Custom", n, <<>>))}
                  ELSE
                  Try(send_command(w4, Program("WriteFlash")), LAMBDA w5, v5 :
                    Then(write_chunks(w5, len, pack), LAMBDA w6 :
                      Try(send_command(w6, Program("End")), LAMBDA w7, v7 :
                        {Return(w7, Ok(<<>>))})))))))
    IN  IF support_flash_protect(chip_family)
        THEN Then(protect_flash(w, FALSE), program)
        ELSE program(w)

\* write_flash going on whatever Unknown07AfterFlashOPWritten answers
write_flash_unchecked_07(w, len, address) ==
    IF ~w.chip.some THEN {Return(w, Panic("unwrap on None: chip"))}
    ELSE
    LET chip_family == w.chip.chip_family
        pack == write_pack_size(chip_family)
        program(w0) ==
          IF ~w0.chip.some THEN {Return(w0, Panic("unwrap on None: chip"))}
          ELSE
          Try(send_command(w0, SetWriteMemoryRegion(address, len)), LAMBDA w1, v1 :
            Try(send_command(w1, Program("WriteFlashOP")), LAMBDA w2, v2 :
              Then(write_data_endpoint(w2, "flash_op", data_packet_size(chip_family)),
                LAMBDA w3 :
                Try(send_command(w3, Program("Unknown07AfterFlashOPWritten")),
                  LAMBDA w4, n :
                  Try(send_command(w4, Program("WriteFlash")), LAMBDA w5, v5 :
                    Then(write_chunks(w5, len, pack), LAMBDA w6 :
                      Try(send_command(w6, Program("End")), LAMBDA w7, v7 :
                        {Return(w7, Ok(<<>>))})))))))
    IN  IF support_flash_protect(chip_family)
        THEN Then(protect_flash(w, FALSE), program)
        ELSE program(w)

\* WchLink::write_flash(data, address); `len` is data.len()
write_flash(w, len, address) ==
    IF ~w.chip.some THEN {Return(w, Panic("unwrap on None: chip"))}
    ELSE
    LET chip_family == w.chip.chip_family
        pack == write_pack_size(chip_family)
        program(w0) ==
          IF ~w0.chip.some THEN {Return(w0, Panic("unwrap on None: chip"))}
          ELSE
          Try(send_command(w0, SetWriteMemoryRegion(address, len)), LAMBDA w1, v1 :
            Try(send_command(w1, Program("WriteFlashOP")), LAMBDA w2, v2 :
              Then(write_data_endpoint(w2, "flash_op", data_packet_size(chip_family)),
                LAMBDA w3 :
                Try(send_command(w3, Program("Unknown07AfterFlashOPWritten")),
                  LAMBDA w4, n :
                  IF n # 7 THEN {Return(w4, Err("Custom", n, <<>>))}
                  ELSE
                  Try(send_command(w4, Program("WriteFlash")), LAMBDA w5, v5 :
                    Then(write_chunks(w5, len, pack), LAMBDA w6 :
                      Try(send_command(w6, Program("End")), LAMBDA w7, v7 :
                        {Return(w7, Ok(<<>>))})))))))
    IN  IF support_flash_protect(chip_family)
        THEN Then(protect_flash(w, FALSE), program)
        ELSE program(w)

\* the bytes the probe streams on data-IN for a memory read of n bytes
DeviceStream(n) == [i \in 1..n |-> 16 + i]

\* read_data_endpoint(n): n bytes from data-IN, a USB error, or a last
\* packet that overshoots; with n = 0 no read is made
read_data_endpoint(w, n) ==
    IF n = 0 THEN {[w |-> w, r |-> Ok(<<>>)]}
    ELSE {[w |-> [w EXCEPT !.wire = Append(@, DataIn(DeviceStream(n), TRUE))],
           r |-> Ok(DeviceStream(n))],
          [w |-> [w EXCEPT !.wire = Append(@, DataIn(DeviceStream(n + 1), TRUE))],
           r |-> Err("InvalidPayloadLength", 0, <<>>)],
          [w |-> [w EXCEPT !.wire = Append(@, DataIn(<<>>, FALSE))],
           r |-> Err("Rusb", 0, <<>>)]}

\* 2^30: a u32 length is kept as [q |-> length / 4, r |-> length % 4]
\* with q < 2^30, since the integers of the model end at 2^31 - 1
Words30 == 1073741824

\* `for chunk in mem.chunks_exact_mut(4) { chunk.reverse() }`
reverse_words(mem) ==
    [i \in 1..Len(mem) |->
        LET z == i - 1
        IN  IF 4 * (z \div 4) + 4 <= Len(mem)
            THEN mem[4 * (z \div 4) + (3 - (z % 4)) + 1]
            ELSE mem[i]]

\* WchLink::read_memory(address, length).  (length / 4 + 1) * 4 is u32
\* arithmetic: when it overflows, a build with overflow checks panics and
\* a build without them wraps to 0
read_memory(w, address, length) ==
    LET read(len) ==
          Try(send_command(w, SetReadMemoryRegion(address, len)), LAMBDA w1, v1 :
            Try(send_command(w1, Program("ReadMemory")), LAMBDA w2, v2 :
              Try(read_data_endpoint(w2, len), LAMBDA w3, mem :
                {[w3 EXCEPT !.res = Ok(reverse_words(mem))]})))
    IN  IF length.r # 0
        THEN IF length.q + 1 = Words30
             THEN {Return(w, Panic("attempt to multiply with overflow"))}
                      \cup read(0)
             ELSE read((length.q + 1) * 4)
        ELSE read(length.q * 4)

\* WchLink::erase_flash_by_power_off(target_chip)
erase_flash_by_power_off(w, target_chip) ==
    IF ~w.probe.some THEN {Return(w, Panic("unwrap on None: probe"))}
    ELSE IF ~support_power_funcs(w.probe.variant)
    THEN {Return(w, Err("Custom", 0, <<>>))}
    ELSE
    \* target_chip.and(self.chip.clone().map(|c| c.chip_family))
    LET chip_family == IF target_chip = "None" THEN "None"
                       ELSE IF w.chip.some THEN w.chip.chip_family ELSE "None"
    IN  IF chip_family # "None" /\ support_special_erase(chip_family)
        THEN Try(send_command(w, EraseCodeFlash("ByPowerOff", chip_family)),
                 LAMBDA w1, v1 : {Return(w1, Ok(<<>>))})
        ELSE {Return(w, Err("Custom", 0, <<>>))}

\* erase_flash_by_rst_pin without the support_power_funcs test
erase_flash_by_rst_pin_any_probe(w, target_chip) ==
    IF ~w.probe.some THEN {Return(w, Panic("unwrap on None: probe"))}
    ELSE
    LET chip_family == IF target_chip = "None" THEN "None"
                       ELSE IF w.chip.some THEN w.chip.chip_family ELSE "None"
    IN  IF chip_family # "None" /\ support_special_erase(chip_family)
        THEN Try(send_command(w, EraseCodeFlash("ByPinRST", chip_family)),
                 LAMBDA w1, v1 : {Return(w1, Ok(<<>>))})
        ELSE {Return(w, Err("Custom", 0, <<>>))}

\* WchLink::erase_flash_by_rst_pin(target_chip)
erase_flash_by_rst_pin(w, target_chip) ==
    IF ~w.probe.some THEN {Return(w, Panic("unwrap on None: probe"))}
    ELSE IF ~support_power_funcs(w.probe.variant)
    THEN {Return(w, Err("Custom", 0, <<>>))}
    ELSE
    LET chip_family == IF target_chip = "None" THEN "None"
                       ELSE IF w.chip.some THEN w.chip.chip_family ELSE "None"
    IN  IF chip_family # "None" /\ support_special_erase(chip_family)
        THEN Try(send_command(w, EraseCodeFlash("ByPinRST", chip_family)),
                 LAMBDA w1, v1 : {Return(w1, Ok(<<>>))})
        ELSE {Return(w, Err("Custom", 0, <<>>))}

-----------------------------------------------------------------------------
(* The DMI driver of src/src/dmi.rs.  Its functions map a session to the   *)
(* set of (session, Result) pairs they can end in.                         *)

\* `let v = X?; K(v)` inside a function that returns a value
AndThen(X, K(_, _)) ==
    UNION {IF x.r.kind = "Ok" THEN K(x.w, x.r.val) ELSE {x} : x \in X}

\* `return r`
Give(w, r) == {[w |-> w, r |-> r]}

\* the retry budget of dmi_read: `n > 100`
RetryCap == 100

\* the not-attached answer: op 0x03, data 0xffffffff, addr 0x7d
is_sentinel(resp) ==
    resp.op = 3 /\ resp.data = U32(65535, 65535) /\ resp.addr = 125

\* the loop is followed for at most this many iterations
MaxIterations == 110

\* the state of a loop: still running with n busy answers counted, or
\* returned r
Looping(w, n) == [w |-> w, r |-> Ok(<<>>), n |-> n, live |-> TRUE]
Returns(w, r) == [w |-> w, r |-> r, n |-> 0, live |-> FALSE]

\* an iteration that takes the sentinel for an ordinary busy answer
dmi_read_iteration_sentinel_busy(w, reg, n) ==
    UNION {IF x.r.kind # "Ok" THEN {Returns(x.w, x.r)}
           ELSE LET resp == x.r.val
                IN  IF is_success(resp) THEN {Returns(x.w, Ok(resp.data))}
                    ELSE IF n > RetryCap THEN {Returns(x.w, Err("Timeout", 0, <<>>))}
                    ELSE IF is_busy(resp) THEN {Looping(x.w, n + 1)}
                    ELSE {Returns(x.w, Err("DmiFailed", 0, <<>>))}
           : x \in send_command(w, DmiOpRead(reg))}

\* one iteration of the loop of dmi_read, entered with n busy answers
\* counted so far
dmi_read_iteration(w, reg, n) ==
    UNION {IF x.r.kind # "Ok" THEN {Returns(x.w, x.r)}
           ELSE LET resp == x.r.val
                IN  IF is_sentinel(resp) THEN {Returns(x.w, Err("NotAttached", 0, <<>>))}
                    ELSE IF is_success(resp) THEN {Returns(x.w, Ok(resp.data))}
                    ELSE IF n > RetryCap THEN {Returns(x.w, Err("Timeout", 0, <<>>))}
                    ELSE IF is_busy(resp) THEN {Looping(x.w, n + 1)}
                    ELSE {Returns(x.w, Err("DmiFailed", 0, <<>>))}
           : x \in send_command(w, DmiOpRead(reg))}

\* `loop { .. }` of dmi_read followed for m iterations
RECURSIVE dmi_read_loop(_, _, _)
dmi_read_loop(S, reg, m) ==
    IF m = 0 \/ \A st \in S : ~st.live THEN S
    ELSE IF m = 1
    THEN UNION {IF st.live THEN dmi_read_iteration(st.w, reg, st.n) ELSE {st} : st \in S}
    ELSE dmi_read_loop(dmi_read_loop(S, reg, m \div 2), reg, m - (m \div 2))

\* DebugModuleInterface::dmi_read(reg) of WchLink; a call still in the loop
\* after MaxIterations has not returned
dmi_read(w, reg) ==
    {[w |-> st.w, r |-> IF st.live THEN Panic("no return") ELSE st.r]
       : st \in dmi_read_loop({Looping(w, 0)}, reg, MaxIterations)}

\* DebugModuleInterface::dmi_write(reg, value) of WchLink: the response is
\* decoded and dropped
dmi_write(w, reg, value) ==
    AndThen(send_command(w, DmiOpWrite(reg, value)), LAMBDA w1, resp :
      Give(w1, Ok(<<>>)))

\* ProbeSession::clear_abstractcs_cmderr
clear_abstractcs_cmderr(w) ==
    dmi_write(w, ABSTRACTCS, set_cmderr(U32(0, 0), 7))

\* ProbeSession::clear_dmstatus_havereset
clear_dmstatus_havereset(w) ==
    AndThen(dmi_read(w, DMCONTROL), LAMBDA w1, dmcontrol :
      dmi_write(w1, DMCONTROL, set_ackhavereset(dmcontrol)))

\* the two checks every function makes on an abstractcs image: busy first,
\* then cmderr
abstractcs_check(abstractcs) ==
    IF abstractcs_busy(abstractcs)
    THEN Err("AbstractCommandError", AbstractcsCmdErr.Busy, <<>>)
    ELSE IF cmderr(abstractcs) # 0 THEN try_from_cmderr(cmderr(abstractcs))
    ELSE Ok(<<>>)

\* the loop of ensure_mcu_halt: request a halt, read dmstatus, until the
\* hart is halted.  It has no bound of its own; it ends because the hart
\* ignores `lag` requests only.
RECURSIVE halt_loop(_)
halt_loop(w) ==
    AndThen(dmi_write(w, DMCONTROL, U32(32768, 1)), LAMBDA w1, v1 :
      AndThen(dmi_read(w1, DMSTATUS), LAMBDA w2, dmstatus :
        IF anyhalted(dmstatus) /\ allhalted(dmstatus) THEN Give(w2, Ok(<<>>))
        ELSE halt_loop(w2)))

\* ensure_mcu_halt that takes the hart's word for it without looking
ensure_mcu_halt_blind(w) ==
    AndThen(dmi_read(w, DMSTATUS), LAMBDA w1, dmstatus :
      AndThen(IF allhalted(dmstatus) /\ anyhalted(dmstatus)
              THEN Give(w1, Ok(<<>>))
              ELSE dmi_write(w1, DMCONTROL, U32(32768, 1)),
              LAMBDA w2, v2 : dmi_write(w2, DMCONTROL, U32(0, 1))))

\* ProbeSession::ensure_mcu_halt
ensure_mcu_halt(w) ==
    AndThen(dmi_read(w, DMSTATUS), LAMBDA w1, dmstatus :
      AndThen(IF allhalted(dmstatus) /\ anyhalted(dmstatus)
              THEN Give(w1, Ok(<<>>))
              ELSE halt_loop(w1),
              LAMBDA w2, v2 : dmi_write(w2, DMCONTROL, U32(0, 1))))

\* ensure_mcu_resume with a third halt request where the halt request is
\* cleared
ensure_mcu_resume_three_halts(w) ==
    AndThen(clear_dmstatus_havereset(w), LAMBDA w1, v1 :
      AndThen(dmi_read(w1, DMSTATUS), LAMBDA w2, dmstatus :
        IF allrunning(dmstatus) /\ anyrunning(dmstatus) THEN Give(w2, Ok(<<>>))
        ELSE
        AndThen(dmi_write(w2, DMCONTROL, U32(32768, 1)), LAMBDA w3, v3 :
          AndThen(dmi_write(w3, DMCONTROL, U32(32768, 1)), LAMBDA w4, v4 :
            AndThen(dmi_write(w4, DMCONTROL, U32(32768, 1)), LAMBDA w5, v5 :
              AndThen(dmi_write(w5, DMCONTROL, U32(16384, 1)), LAMBDA w6, v6 :
                AndThen(dmi_read(w6, DMSTATUS), LAMBDA w7, dmstatus2 :
                  Give(w7, Ok(<<>>)))))))))

\* ensure_mcu_resume that reports a resume request without acknowledgement
\* to its caller
ensure_mcu_resume_strict(w) ==
    AndThen(clear_dmstatus_havereset(w), LAMBDA w1, v1 :
      AndThen(dmi_read(w1, DMSTATUS), LAMBDA w2, dmstatus :
        IF allrunning(dmstatus) /\ anyrunning(dmstatus) THEN Give(w2, Ok(<<>>))
        ELSE
        AndThen(dmi_write(w2, DMCONTROL, U32(32768, 1)), LAMBDA w3, v3 :
          AndThen(dmi_write(w3, DMCONTROL, U32(32768, 1)), LAMBDA w4, v4 :
            AndThen(dmi_write(w4, DMCONTROL, U32(0, 1)), LAMBDA w5, v5 :
              AndThen(dmi_write(w5, DMCONTROL, U32(16384, 1)), LAMBDA w6, v6 :
                AndThen(dmi_read(w6, DMSTATUS), LAMBDA w7, dmstatus2 :
                  IF allresumeack(dmstatus2) /\ anyresumeack(dmstatus2)
                  THEN Give(w7, Ok(<<>>))
                  ELSE Give(w7, Err("Custom", 0, <<>>)))))))))

\* ProbeSession::ensure_mcu_resume
ensure_mcu_resume(w) ==
    AndThen(clear_dmstatus_havereset(w), LAMBDA w1, v1 :
      AndThen(dmi_read(w1, DMSTATUS), LAMBDA w2, dmstatus :
        IF allrunning(dmstatus) /\ anyrunning(dmstatus) THEN Give(w2, Ok(<<>>))
        ELSE
        AndThen(dmi_write(w2, DMCONTROL, U32(32768, 1)), LAMBDA w3, v3 :
          AndThen(dmi_write(w3, DMCONTROL, U32(32768, 1)), LAMBDA w4, v4 :
            AndThen(dmi_write(w4, DMCONTROL, U32(0, 1)), LAMBDA w5, v5 :
              AndThen(dmi_write(w5, DMCONTROL, U32(16384, 1)), LAMBDA w6, v6 :
                AndThen(dmi_read(w6, DMSTATUS), LAMBDA w7, dmstatus2 :
                  Give(w7, Ok(<<>>)))))))))

\* ProbeSession::read_reg(regno)
read_reg(w, regno) ==
    AndThen(clear_abstractcs_cmderr(w), LAMBDA w1, v1 :
      AndThen(dmi_write(w1, DATA0, U32(0, 0)), LAMBDA w2, v2 :
        AndThen(dmi_write(w2, COMMAND, U32(34, regno)), LAMBDA w3, v3 :
          AndThen(dmi_read(w3, ABSTRACTCS), LAMBDA w4, abstractcs :
            AndThen(Give(w4, abstractcs_check(abstractcs)), LAMBDA w5, v5 :
              dmi_read(w5, DATA0))))))

\* ProbeSession::write_reg(regno, value)
write_reg(w, regno, value) ==
    AndThen(dmi_write(w, DATA0, value), LAMBDA w1, v1 :
      AndThen(dmi_write(w1, COMMAND, U32(35, regno)), LAMBDA w2, v2 :
        AndThen(dmi_read(w2, ABSTRACTCS), LAMBDA w3, abstractcs :
          Give(w3, abstractcs_check(abstractcs)))))

\* ProbeSession::read_mem32(addr).  After the second command the checks
\* run on the abstractcs image read after the first.
read_mem32(w, addr) ==
    AndThen(dmi_write(w, PROGBUF0, U32(2, 41731)), LAMBDA w1, v1 :
      AndThen(dmi_write(w1, PROGBUF1, U32(16, 115)), LAMBDA w2, v2 :
        AndThen(dmi_write(w2, DATA0, addr), LAMBDA w3, v3 :
          AndThen(clear_abstractcs_cmderr(w3), LAMBDA w4, v4 :
            AndThen(dmi_write(w4, COMMAND, U32(39, 4101)), LAMBDA w5, v5 :
              AndThen(dmi_read(w5, ABSTRACTCS), LAMBDA w6, abstractcs :
                AndThen(Give(w6, abstractcs_check(abstractcs)), LAMBDA w7, v7 :
                  AndThen(dmi_write(w7, COMMAND, U32(34, 4102)), LAMBDA w8, v8 :
                    AndThen(Give(w8, abstractcs_check(abstractcs)), LAMBDA w9, v9 :
                      dmi_read(w9, DATA0))))))))))

\* the body write_mem32 and write_mem8 share: the store instruction in
\* progbuf0 and the value differ
write_mem(w, store, addr, data) ==
    AndThen(dmi_write(w, PROGBUF0, store), LAMBDA w1, v1 :
      AndThen(dmi_write(w1, PROGBUF1, U32(16, 115)), LAMBDA w2, v2 :
        AndThen(dmi_write(w2, DATA0, addr), LAMBDA w3, v3 :
          AndThen(clear_abstractcs_cmderr(w3), LAMBDA w4, v4 :
            AndThen(dmi_write(w4, COMMAND, U32(35, 4101)), LAMBDA w5, v5 :
              AndThen(dmi_read(w5, ABSTRACTCS), LAMBDA w6, abstractcs :
                AndThen(Give(w6, abstractcs_check(abstractcs)), LAMBDA w7, v7 :
                  AndThen(dmi_write(w7, DATA0, data), LAMBDA w8, v8 :
                    AndThen(clear_abstractcs_cmderr(w8), LAMBDA w9, v9 :
                      AndThen(dmi_write(w9, COMMAND, U32(39, 4103)), LAMBDA w10, v10 :
                        AndThen(dmi_read(w10, ABSTRACTCS), LAMBDA w11, abstractcs2 :
                          Give(w11, abstractcs_check(abstractcs2)))))))))))))

\* ProbeSession::write_mem32(addr, data): sw x7,0(x5)
write_mem32(w, addr, data) == write_mem(w, U32(114, 40995), addr, data)

\* ProbeSession::write_mem8(addr, data): sb x7,0(x5); data is a u8
write_mem8(w, addr, data) == write_mem(w, U32(114, 32803), addr, U32(0, data))

\* WchLink::clear_abstractcs_cmderr of operations.rs: abstractcs is read
\* and written back with cmderr set to 0b111
wchlink_clear_abstractcs_cmderr(w) ==
    AndThen(dmi_read(w, ABSTRACTCS), LAMBDA w1, abstractcs :
      dmi_write(w1, ABSTRACTCS, set_cmderr(abstractcs, 7)))

\* WchLink::write_memory_word(address, data)
write_memory_word(w, address, data) ==
    AndThen(dmi_write(w, PROGBUF0, U32(114, 40995)), LAMBDA w1, v1 :
      AndThen(dmi_write(w1, PROGBUF1, U32(16, 115)), LAMBDA w2, v2 :
        AndThen(dmi_write(w2, DATA0, address), LAMBDA w3, v3 :
          AndThen(wchlink_clear_abstractcs_cmderr(w3), LAMBDA w4, v4 :
            AndThen(dmi_write(w4, COMMAND, U32(35, 4101)), LAMBDA w5, v5 :
              AndThen(dmi_read(w5, ABSTRACTCS), LAMBDA w6, abstractcs :
                AndThen(Give(w6, abstractcs_check(abstractcs)), LAMBDA w7, v7 :
                  AndThen(dmi_write(w7, DATA0, data), LAMBDA w8, v8 :
                    AndThen(wchlink_clear_abstractcs_cmderr(w8), LAMBDA w9, v9 :
                      AndThen(dmi_write(w9, COMMAND, U32(39, 4103)), LAMBDA w10, v10 :
                        AndThen(dmi_read(w10, ABSTRACTCS), LAMBDA w11, abstractcs2 :
                          Give(w11, abstractcs_check(abstractcs2)))))))))))))

\* the constants of soft_reset: PFIC_CFGR = 0xE000E048, KEY3 = 0xBEEF,
\* KEY_OFFSET = 16, RESETSYS_OFFSET = 7
PFIC_CFGR == U32(57344, 57416)
KEY3 == 48879
KEY_OFFSET == 16
RESETSYS_OFFSET == 7

\* x << k | 1 << j as a u32, for a 16-bit x, k = 16 and j < 16
RESET_VAL == U32((KEY3 * (2 ^ (KEY_OFFSET - 16))) % 65536, 2 ^ RESETSYS_OFFSET)

\* soft_reset with the address and the value in each other's place
soft_reset_swapped(w) == write_memory_word(w, RESET_VAL, PFIC_CFGR)

\* WchLink::soft_reset
soft_reset(w) == write_memory_word(w, PFIC_CFGR, RESET_VAL)

\* addr + k for a small k, on addresses that do not wrap
u32_add(x, k) == U32(x.hi + (x.lo + k) \div 65536, (x.lo + k) % 65536)

\* u32::to_le_bytes
u32_to_le_bytes(x) == << x.lo % 256, x.lo \div 256, x.hi % 256, x.hi \div 256 >>

\* the loop of read_memory_by_dmi: words i .. len / 4 - 1 appended to ret
RECURSIVE read_words(_, _, _, _, _)
read_words(w, addr, i, words, ret) ==
    IF i >= words THEN Give(w, Ok(ret))
    ELSE AndThen(read_mem32(w, u32_add(addr, i * 4)), LAMBDA w1, data :
           read_words(w1, addr, i + 1, words, ret \o u32_to_le_bytes(data)))

\* ProbeSession::read_memory_by_dmi(addr, len)
read_memory_by_dmi(w, addr, len) ==
    IF len % 4 # 0 THEN Give(w, Err("Custom", 0, <<>>))
    ELSE read_words(w, addr, 0, len \div 4, <<>>)

-----------------------------------------------------------------------------
(* Inputs of the codec specification.                                      *)

\* all sequences over S of length exactly n
RECURSIVE SeqsOfLen(_, _)
SeqsOfLen(S, n) ==
    IF n = 0 THEN {<<>>}
    ELSE {Append(s, b) : s \in SeqsOfLen(S, n - 1), b \in S}

SeqsUpTo(S, n) == UNION {SeqsOfLen(S, k) : k \in 0..n}

\* payload bytes: 0xDE, 0xAD of the spec's example
PayloadBytes == {222, 173}

\* command IDs / reason bytes: 0x05 (example reason), 0x0D (control), 0x55
CodeBytes == {5, 13, 85}

\* leading bytes: 0x81 (request / error), 0x82 (response), 0x00, 0xFF
LeadBytes == {129, 130, 0, 255}

\* payloads given to the encoder
EncoderPayloads ==
    SeqsUpTo(PayloadBytes, MaxPayload)
        \cup {[i \in 1..n |-> 255 - (i % 2)] : n \in (MaxPayload + 1)..LongPayload}

\* responses given to the decoder: framed ones, with a right or wrong
\* length byte, and responses shorter than the header
DecoderResponses ==
    {<<t, c, l>> \o p : t \in LeadBytes, c \in CodeBytes,
                        l \in 0..(MaxPayload + 1),
                        p \in SeqsUpTo(PayloadBytes, MaxPayload)}
        \cup {<<t>> : t \in LeadBytes}
        \cup {<<t, c>> : t \in LeadBytes, c \in CodeBytes}
        \cup {<<>>}

ResponseTypes == {"unit", "vec", "u8", "bool"}

IdleSession ==
    /\ dev = [variant |-> 0, major |-> 0, minor |-> 0, family |-> 0, prot |-> 0]
    /\ chip = [some |-> FALSE, chip_family |-> "", chip_id |-> 0]
    /\ probe = [some |-> FALSE, major_version |-> 0, minor_version |-> 0, variant |-> ""]
    /\ speed = 1
    /\ op = [name |-> "none", expected |-> "", protect |-> FALSE, len |-> 0,
             address |-> 0, chip0 |-> chip]
    /\ wire = <<>>
    /\ res = [kind |-> "Ok", err |-> "", code |-> 0, bytes |-> <<>>, val |-> <<>>]
    /\ attached = FALSE

InitCodec ==
    /\ \/ /\ fn = "to_raw"
          /\ arg \in [command_id : CodeBytes, payload : EncoderPayloads]
       \/ /\ fn = "from_raw"
          /\ arg \in [rtype : ResponseTypes, resp : DecoderResponses]
    /\ out = <<>>
    /\ done = FALSE
    /\ IdleSession

\* a caller encodes a command
Encode ==
    /\ fn = "to_raw" /\ ~done
    /\ out' = to_raw(arg.command_id, arg.payload)
    /\ done' = TRUE
    /\ UNCHANGED <<fn, arg, sessionVars>>

\* a caller decodes a response
Decode ==
    /\ fn = "from_raw" /\ ~done
    /\ out' = from_raw(arg.rtype, arg.resp)
    /\ done' = TRUE
    /\ UNCHANGED <<fn, arg, sessionVars>>

NextCodec == Encode \/ Decode

SpecCodec == InitCodec /\ [][NextCodec]_vars

-----------------------------------------------------------------------------
(* The session specification: a caller drives one WchLink.                 *)

\* most chunks of write_pack_size bytes in one write_flash
MaxChunks == 2

\* probes: WCH-LinkE firmware 2.7 and 2.9, WCH-LinkW firmware 2.10 and
\* 3.0, WCH-LinkS firmware 2.8, WCH-Link-CH549 firmware 2.7 and 1.99
DevProbes ==
    {[variant |-> 2, major |-> 2, minor |-> 7],
     [variant |-> 2, major |-> 2, minor |-> 9],
     [variant |-> 5, major |-> 2, minor |-> 10],
     [variant |-> 5, major |-> 3, minor |-> 0],
     [variant |-> 3, major |-> 2, minor |-> 8],
     [variant |-> 1, major |-> 2, minor |-> 7],
     [variant |-> 1, major |-> 1, minor |-> 99]}

\* the family byte the target reports: CH32V103, CH57X, and 0x08, which
\* is not in the family table
DevFamilies == {1, 2, 8}

\* the target's read-protect status: protected, unprotected, unknown
DevProt == {1, 2, 0}

Devices ==
    {[variant |-> p.variant, major |-> p.major, minor |-> p.minor,
      family |-> f, prot |-> t] : p \in DevProbes, f \in DevFamilies, t \in DevProt}

\* the expected_chip a caller passes to attach_chip
ExpectedChips == {"None", "CH32V103", "CH57X"}

\* RiscvChip::code_flash_start
code_flash_start(c) ==
    IF c \in {"CH56X", "CH57X", "CH582", "CH585", "CH59X", "CH8571"}
    THEN 0 ELSE 134217728

\* lengths of the data given to write_flash: empty, and for each number of
\* chunks up to MaxChunks a last chunk of one byte and a full last chunk
DataLens(pack) ==
    {0} \cup {k * pack : k \in 1..MaxChunks}
        \cup {(k - 1) * pack + 1 : k \in 1..MaxChunks}

\* the address and lengths given to read_memory: RAM start; lengths of 0,
\* 1, 4, 5, 7, 8 bytes and the u32 values 0xFFFFFFFD and 0xFFFFFFFF
ReadAddrs == {536870912}

ReadLengths ==
    {[q |-> 0, r |-> 0], [q |-> 0, r |-> 1], [q |-> 1, r |-> 0],
     [q |-> 1, r |-> 1], [q |-> 1, r |-> 3], [q |-> 2, r |-> 0],
     [q |-> Words30 - 1, r |-> 1], [q |-> Words30 - 1, r |-> 3]}

NoOp == [name |-> "none", expected |-> "", protect |-> FALSE, len |-> 0,
         address |-> 0, chip0 |-> NoneChipInfo]

Init ==
    /\ fn = "none" /\ arg = <<>> /\ out = <<>> /\ done = FALSE
    /\ dev \in Devices
    /\ chip = NoneChipInfo
    /\ probe = NoneProbeInfo
    /\ speed = 1
    /\ op = NoOp
    /\ wire = <<>>
    /\ res = Ok(<<>>)
    /\ attached = FALSE

\* the WchLink as the operation finds it
Self ==
    [dev |-> dev, chip |-> chip, probe |-> probe, speed |-> speed,
     wire |-> <<>>, res |-> Ok(<<>>)]

\* the operation has run and ended in session s
Returned(s) ==
    /\ dev' = s.dev
    /\ chip' = s.chip
    /\ probe' = s.probe
    /\ wire' = s.wire
    /\ res' = s.res
    /\ UNCHANGED <<speed, codecVars>>

CallAttachChip ==
    /\ op.name = "none"
    /\ \E expected_chip \in ExpectedChips :
         \E s \in attach_chip(Self, expected_chip) :
            /\ Returned(s)
            /\ op' = [NoOp EXCEPT !.name = "attach_chip", !.expected = expected_chip,
                                  !.chip0 = chip]
            /\ attached' = (attached \/ s.res.kind = "Ok")

CallDetachChip ==
    /\ op.name = "none"
    /\ \E s \in detach_chip(Self) :
         /\ Returned(s)
         /\ op' = [NoOp EXCEPT !.name = "detach_chip", !.chip0 = chip]
         /\ attached' = FALSE

CallProtectFlash ==
    /\ op.name = "none" /\ attached
    /\ \E protect \in BOOLEAN :
         \E s \in protect_flash(Self, protect) :
            /\ Returned(s)
            /\ op' = [NoOp EXCEPT !.name = "protect_flash", !.protect = protect,
                                  !.chip0 = chip]
            /\ UNCHANGED attached

CallEraseFlash ==
    /\ op.name = "none" /\ attached
    /\ \E s \in erase_flash(Self) :
         /\ Returned(s)
         /\ op' = [NoOp EXCEPT !.name = "erase_flash", !.chip0 = chip]
         /\ UNCHANGED attached

CallWriteFlash ==
    /\ op.name = "none" /\ attached
    /\ \E len \in DataLens(write_pack_size(chip.chip_family)) :
         LET address == code_flash_start(chip.chip_family)
         IN  \E s \in write_flash(Self, len, address) :
                /\ Returned(s)
                /\ op' = [NoOp EXCEPT !.name = "write_flash", !.len = len,
                                      !.address = address, !.chip0 = chip]
                /\ UNCHANGED attached

CallReadMemory ==
    /\ op.name = "none"
    /\ \E address \in ReadAddrs, length \in ReadLengths :
         \E s \in read_memory(Self, address, length) :
            /\ Returned(s)
            /\ op' = [NoOp EXCEPT !.name = "read_memory", !.len = length,
                                  !.address = address, !.chip0 = chip]
            /\ UNCHANGED attached

CallEraseFlashByPowerOff ==
    /\ op.name = "none"
    /\ \E target_chip \in ExpectedChips :
         \E s \in erase_flash_by_power_off(Self, target_chip) :
            /\ Returned(s)
            /\ op' = [NoOp EXCEPT !.name = "erase_flash_by_power_off",
                                  !.expected = target_chip, !.chip0 = chip]
            /\ UNCHANGED attached

CallEraseFlashByRstPin ==
    /\ op.name = "none"
    /\ \E target_chip \in ExpectedChips :
         \E s \in erase_flash_by_rst_pin(Self, target_chip) :
            /\ Returned(s)
            /\ op' = [NoOp EXCEPT !.name = "erase_flash_by_rst_pin",
                                  !.expected = target_chip, !.chip0 = chip]
            /\ UNCHANGED attached

\* the caller takes the Result and goes on to its next call; a panic has
\* ended the process
Continue ==
    /\ op.name # "none"
    /\ res.kind # "Panic"
    /\ op' = NoOp
    /\ wire' = <<>>
    /\ res' = Ok(<<>>)
    /\ UNCHANGED <<dev, chip, probe, speed, attached, codecVars>>

Next ==
    \/ CallAttachChip
    \/ CallDetachChip
    \/ CallProtectFlash
    \/ CallEraseFlash
    \/ CallWriteFlash
    \/ CallReadMemory
    \/ CallEraseFlashByPowerOff
    \/ CallEraseFlashByRstPin
    \/ Continue

Spec == Init /\ [][Next]_vars

-----------------------------------------------------------------------------
(* The data endpoints: write_data / write_data_with_progress and read_data *)
(* of probe.rs, as functions of the buffer and of what the USB endpoint    *)
(* does.                                                                   *)

\* longest buffer given to write_data, largest packet_len, most packets
\* the device hands to read_data
MaxData == 5
MaxPacket == 3
MaxReads == 3

\* `vec![0u8; 64]`: the buffer of one data-IN read
PacketBuf == 64

\* chunk.resize(packet_len, 0xff)
resize(chunk, packet_len) ==
    chunk \o [i \in 1..(packet_len - Len(chunk)) |-> 255]

\* the loop without `chunk.resize(packet_len, 0xff)`
RECURSIVE write_data_unpadded(_, _, _)
write_data_unpadded(buf, packet_len, accepted) ==
    IF packet_len = 0 THEN [packets |-> <<>>, r |-> Panic("chunk size must be non-zero")]
    ELSE IF buf = <<>> THEN [packets |-> <<>>, r |-> Ok(<<>>)]
    ELSE IF accepted = 0 THEN [packets |-> <<>>, r |-> Err("Rusb", 0, <<>>)]
    ELSE LET k == Min(Len(buf), packet_len)
             rest == write_data_unpadded(SubSeq(buf, k + 1, Len(buf)),
                                         packet_len, accepted - 1)
         IN  [packets |-> <<SubSeq(buf, 1, k)>> \o rest.packets, r |-> rest.r]

\* WchLink::write_data_with_progress(buf, packet_len, _): the packets
\* written to DATA_ENDPOINT_OUT and the Result, when the endpoint accepts
\* `accepted` writes and fails the next
RECURSIVE write_data_with_progress(_, _, _)
write_data_with_progress(buf, packet_len, accepted) ==
    IF packet_len = 0 THEN [packets |-> <<>>, r |-> Panic("chunk size must be non-zero")]
    ELSE IF buf = <<>> THEN [packets |-> <<>>, r |-> Ok(<<>>)]
    ELSE IF accepted = 0 THEN [packets |-> <<>>, r |-> Err("Rusb", 0, <<>>)]
    ELSE LET k == Min(Len(buf), packet_len)
             chunk == resize(SubSeq(buf, 1, k), packet_len)
             rest == write_data_with_progress(SubSeq(buf, k + 1, Len(buf)),
                                              packet_len, accepted - 1)
         IN  [packets |-> <<chunk>> \o rest.packets, r |-> rest.r]

\* WchLink::write_data
write_data(buf, packet_len, accepted) ==
    write_data_with_progress(buf, packet_len, accepted)

\* the `while bytes_read < n` loop of read_data: `stream` is what the
\* following reads of DATA_ENDPOINT_IN return (a read past its end times
\* out), `buf` what has been read, `reads` the number of reads made
RECURSIVE read_loop(_, _, _, _)
read_loop(n, stream, buf, reads) ==
    IF Len(buf) >= n THEN [buf |-> buf, reads |-> reads, r |-> Ok(<<>>)]
    ELSE IF stream = <<>>
         THEN [buf |-> buf, reads |-> reads + 1, r |-> Err("Rusb", 0, <<>>)]
         ELSE read_loop(n, Tail(stream), buf \o Head(stream), reads + 1)

\* read_data returning buf[..n] without comparing bytes_read with n
read_data_truncating(n, stream) ==
    LET l == read_loop(n, stream, <<>>, 0)
    IN  IF l.r.kind # "Ok" THEN [reads |-> l.reads, r |-> l.r]
        ELSE [reads |-> l.reads, r |-> Ok(SubSeq(l.buf, 1, n))]

\* WchLink::read_data(n)
read_data(n, stream) ==
    LET l == read_loop(n, stream, <<>>, 0)
    IN  IF l.r.kind # "Ok" THEN [reads |-> l.reads, r |-> l.r]
        ELSE IF Len(l.buf) # n
             THEN [reads |-> l.reads, r |-> Err("InvalidPayloadLength", 0, <<>>)]
             ELSE [reads |-> l.reads, r |-> Ok(SubSeq(l.buf, 1, n))]

\* buffers given to write_data: payload bytes 0x11 and 0xFF
DataBufs == SeqsUpTo({17, 255}, MaxData)

\* what one read of data-IN can return: nothing, short packets, a full
\* 64-byte packet
InPackets ==
    {<<>>, <<1>>, <<2>>, <<3, 4>>, <<5, 6, 7>>, [i \in 1..PacketBuf |-> 100 + i]}

\* the lengths asked of read_data
ReadLens == {0, 1, 2, 3, 4, PacketBuf, PacketBuf + 1, PacketBuf + 3}

InitData ==
    /\ \/ /\ fn = "write_data"
          /\ arg \in [buf : DataBufs, packet_len : 0..MaxPacket,
                      accepted : 0..MaxData]
       \/ /\ fn = "read_data"
          /\ arg \in [n : ReadLens, stream : SeqsUpTo(InPackets, MaxReads)]
    /\ out = <<>>
    /\ done = FALSE
    /\ IdleSession

\* a caller sends a buffer to data-OUT
WriteData ==
    /\ fn = "write_data" /\ ~done
    /\ out' = write_data(arg.buf, arg.packet_len, arg.accepted)
    /\ done' = TRUE
    /\ UNCHANGED <<fn, arg, sessionVars>>

\* a caller reads n bytes from data-IN
ReadData ==
    /\ fn = "read_data" /\ ~done
    /\ out' = read_data(arg.n, arg.stream)
    /\ done' = TRUE
    /\ UNCHANGED <<fn, arg, sessionVars>>

NextData == WriteData \/ ReadData

SpecData == InitData /\ [][NextData]_vars

-----------------------------------------------------------------------------
(* Specification of dmi_read on its own: one call against a debug module  *)
(* that answers busy `busy` times and then success, failed or the          *)
(* sentinel.                                                               *)

\* the longest run of busy answers
MaxBusy == 103

\* a halted hart behind a debug module that answers at once
QuietDm ==
    [halted |-> TRUE, resumeack |-> FALSE, cmderr |-> 0, acbusy |-> FALSE,
     data0 |-> U32(43690, 21845), busy |-> 0, glitch |-> "none", lag |-> 0,
     resume_ok |-> TRUE, fault_at |-> 0, fault_err |-> 0, fault_busy |-> FALSE]

Glitches == {"none", "failed", "sentinel"}

\* an attached session: attach_chip has filled in the chip and the probe
AttachedSession ==
    /\ chip = SomeChipInfo("CH32V103", 0)
    /\ probe = SomeProbeInfo([major_version |-> 2, minor_version |-> 9,
                              variant |-> "ECh32v305"])
    /\ speed = 1
    /\ wire = <<>>
    /\ res = Ok(<<>>)
    /\ attached = TRUE

InitDmiRead ==
    /\ fn = "dmi_read"
    /\ arg \in [reg : {DMSTATUS, DATA0}]
    /\ out = <<>>
    /\ done = FALSE
    /\ \E b \in 0..MaxBusy, g \in Glitches :
          dev = [QuietDm EXCEPT !.busy = b, !.glitch = g]
    /\ op = [name |-> "none", dev0 |-> dev]
    /\ AttachedSession

\* a caller reads a debug-module register
DmiRead ==
    /\ fn = "dmi_read" /\ ~done
    /\ \E x \in dmi_read(Self, arg.reg) :
          /\ dev' = x.w.dev
          /\ wire' = x.w.wire
          /\ res' = x.r
    /\ done' = TRUE
    /\ op' = [op EXCEPT !.name = "dmi_read"]
    /\ UNCHANGED <<fn, arg, out, chip, probe, speed, attached>>

NextDmiRead == DmiRead

SpecDmiRead == InitDmiRead /\ [][NextDmiRead]_vars

-----------------------------------------------------------------------------
(* Specification of the register images: cmderr of an abstractcs value     *)
(* and its decoding.                                                       *)

\* halves of the abstractcs values enumerated
HiHalves == {0, 1, 2048, 32768, 65535}
LoHalves ==
    {256 * c + r : c \in 0..7, r \in {0, 2, 255}}
    \cup {256 * c + 2048 * t + 4096 : c \in 0..7, t \in 0..1}
    \cup {256 * c + 63488 + 255 : c \in 0..7}

InitRegs ==
    /\ fn = "cmderr"
    /\ arg \in [hi : HiHalves, lo : LoHalves]
    /\ out = <<>>
    /\ done = FALSE
    /\ IdleSession

\* a caller decodes the cmderr field of an abstractcs image
DecodeCmderr ==
    /\ fn = "cmderr" /\ ~done
    /\ out' = try_from_cmderr(cmderr(arg))
    /\ done' = TRUE
    /\ UNCHANGED <<fn, arg, sessionVars>>

NextRegs == DecodeCmderr

SpecRegs == InitRegs /\ [][NextRegs]_vars

-----------------------------------------------------------------------------
(* Specification of a DMI session: the caller has attached and calls the   *)
(* driver's functions one after another.  Each call meets a debug module   *)
(* in one of the conditions of DmConditions; the condition has passed by   *)
(* the next call, the state of the hart and of the registers has not.      *)

\* the conditions a call can meet: busy answers, a failed answer or the
\* sentinel, a hart slow to halt or deaf to resume, an abstract command
\* that fails or is slow
DmConditions ==
    {[busy |-> 0, glitch |-> "none", lag |-> 0, resume_ok |-> TRUE,
      fault_at |-> 0, fault_err |-> 0, fault_busy |-> FALSE],
     [busy |-> 2, glitch |-> "none", lag |-> 0, resume_ok |-> TRUE,
      fault_at |-> 0, fault_err |-> 0, fault_busy |-> FALSE],
     [busy |-> 0, glitch |-> "failed", lag |-> 0, resume_ok |-> TRUE,
      fault_at |-> 0, fault_err |-> 0, fault_busy |-> FALSE],
     [busy |-> 1, glitch |-> "sentinel", lag |-> 0, resume_ok |-> TRUE,
      fault_at |-> 0, fault_err |-> 0, fault_busy |-> FALSE],
     [busy |-> 0, glitch |-> "none", lag |-> 2, resume_ok |-> TRUE,
      fault_at |-> 0, fault_err |-> 0, fault_busy |-> FALSE],
     [busy |-> 0, glitch |-> "none", lag |-> 0, resume_ok |-> FALSE,
      fault_at |-> 0, fault_err |-> 0, fault_busy |-> FALSE],
     [busy |-> 0, glitch |-> "none", lag |-> 0, resume_ok |-> TRUE,
      fault_at |-> 1, fault_err |-> 2, fault_busy |-> FALSE],
     [busy |-> 0, glitch |-> "none", lag |-> 0, resume_ok |-> TRUE,
      fault_at |-> 1, fault_err |-> 0, fault_busy |-> TRUE],
     [busy |-> 0, glitch |-> "none", lag |-> 0, resume_ok |-> TRUE,
      fault_at |-> 2, fault_err |-> 3, fault_busy |-> FALSE],
     [busy |-> 0, glitch |-> "none", lag |-> 0, resume_ok |-> TRUE,
      fault_at |-> 2, fault_err |-> 0, fault_busy |-> TRUE]}

\* the debug module d in condition c
Under(d, c) ==
    [d EXCEPT !.busy = c.busy, !.glitch = c.glitch, !.lag = c.lag,
              !.resume_ok = c.resume_ok, !.fault_at = c.fault_at,
              !.fault_err = c.fault_err, !.fault_busy = c.fault_busy]

\* the arguments the caller passes
RegNos == {1969}
MemAddrs == {U32(8192, 0)}
MemWords == {U32(57005, 48879)}
MemBytes == {165}
DmiLens == {0, 4, 6, 8}

DmiNoOp ==
    [name |-> "none", regno |-> 0, addr |-> U32(0, 0), data |-> U32(0, 0),
     len |-> 0, dev0 |-> QuietDm]

InitDmi ==
    /\ fn = "none" /\ arg = <<>> /\ out = <<>> /\ done = FALSE
    /\ dev = QuietDm
    /\ op = DmiNoOp
    /\ AttachedSession

\* the ProbeSession as the call finds it, the debug module in condition c
SelfUnder(c) ==
    [dev |-> Under(dev, c), chip |-> chip, probe |-> probe, speed |-> speed,
     wire |-> <<>>, res |-> Ok(<<>>)]

\* the call has ended in x
DmiReturned(x) ==
    /\ dev' = x.w.dev
    /\ wire' = x.w.wire
    /\ res' = x.r
    /\ UNCHANGED <<chip, probe, speed, attached, codecVars>>

CallEnsureMcuHalt ==
    /\ op.name = "none"
    /\ \E c \in DmConditions : \E x \in ensure_mcu_halt(SelfUnder(c)) :
          /\ DmiReturned(x)
          /\ op' = [DmiNoOp EXCEPT !.name = "ensure_mcu_halt", !.dev0 = Under(dev, c)]

CallEnsureMcuResume ==
    /\ op.name = "none"
    /\ \E c \in DmConditions : \E x \in ensure_mcu_resume(SelfUnder(c)) :
          /\ DmiReturned(x)
          /\ op' = [DmiNoOp EXCEPT !.name = "ensure_mcu_resume", !.dev0 = Under(dev, c)]

CallReadReg ==
    /\ op.name = "none"
    /\ \E c \in DmConditions, regno \in RegNos : \E x \in read_reg(SelfUnder(c), regno) :
          /\ DmiReturned(x)
          /\ op' = [DmiNoOp EXCEPT !.name = "read_reg", !.regno = regno,
                                   !.dev0 = Under(dev, c)]

CallWriteReg ==
    /\ op.name = "none"
    /\ \E c \in DmConditions, regno \in RegNos, value \in MemWords :
          \E x \in write_reg(SelfUnder(c), regno, value) :
             /\ DmiReturned(x)
             /\ op' = [DmiNoOp EXCEPT !.name = "write_reg", !.regno = regno,
                                      !.data = value, !.dev0 = Under(dev, c)]

CallReadMem32 ==
    /\ op.name = "none"
    /\ \E c \in DmConditions, addr \in MemAddrs : \E x \in read_mem32(SelfUnder(c), addr) :
          /\ DmiReturned(x)
          /\ op' = [DmiNoOp EXCEPT !.name = "read_mem32", !.addr = addr,
                                   !.dev0 = Under(dev, c)]

CallWriteMem32 ==
    /\ op.name = "none"
    /\ \E c \in DmConditions, addr \in MemAddrs, data \in MemWords :
          \E x \in write_mem32(SelfUnder(c), addr, data) :
             /\ DmiReturned(x)
             /\ op' = [DmiNoOp EXCEPT !.name = "write_mem32", !.addr = addr,
                                      !.data = data, !.dev0 = Under(dev, c)]

CallWriteMem8 ==
    /\ op.name = "none"
    /\ \E c \in DmConditions, addr \in MemAddrs, data \in MemBytes :
          \E x \in write_mem8(SelfUnder(c), addr, data) :
             /\ DmiReturned(x)
             /\ op' = [DmiNoOp EXCEPT !.name = "write_mem8", !.addr = addr,
                                      !.data = U32(0, data), !.dev0 = Under(dev, c)]

CallReadMemoryByDmi ==
    /\ op.name = "none"
    /\ \E c \in DmConditions, addr \in MemAddrs, len \in DmiLens :
          \E x \in read_memory_by_dmi(SelfUnder(c), addr, len) :
             /\ DmiReturned(x)
             /\ op' = [DmiNoOp EXCEPT !.name = "read_memory_by_dmi", !.addr = addr,
                                      !.len = len, !.dev0 = Under(dev, c)]

CallSoftReset ==
    /\ op.name = "none"
    /\ \E c \in DmConditions : \E x \in soft_reset(SelfUnder(c)) :
          /\ DmiReturned(x)
          /\ op' = [DmiNoOp EXCEPT !.name = "soft_reset", !.dev0 = Under(dev, c)]

\* the caller takes the Result and goes on to its next call
DmiContinue ==
    /\ op.name # "none"
    /\ op' = DmiNoOp
    /\ wire' = <<>>
    /\ res' = Ok(<<>>)
    /\ dev' = Under(dev, CHOOSE c \in DmConditions :
                           c.busy = 0 /\ c.glitch = "none" /\ c.lag = 0
                           /\ c.resume_ok /\ c.fault_at = 0)
    /\ UNCHANGED <<chip, probe, speed, attached, codecVars>>

NextDmi ==
    \/ CallEnsureMcuHalt
    \/ CallEnsureMcuResume
    \/ CallReadReg
    \/ CallWriteReg
    \/ CallReadMem32
    \/ CallWriteMem32
    \/ CallWriteMem8
    \/ CallReadMemoryByDmi
    \/ CallSoftReset
    \/ DmiContinue

SpecDmi == InitDmi /\ [][NextDmi]_vars

-----------------------------------------------------------------------------
(* C1: for a command with ID N and payload P, len(P) in 0..60, to_raw      *)
(* returns [0x81, N, len(P)] followed by P: the frame is len(P)+3 bytes    *)
(* long and its third byte is the payload length.                          *)
C1_ToRawFrame ==
    (fn = "to_raw" /\ done /\ Len(arg.payload) <= 60) =>
        /\ Len(out) = Len(arg.payload) + 3
        /\ out[1] = 129
        /\ out[2] = arg.command_id
        /\ out[3] = Len(arg.payload)
        /\ \A i \in 1..Len(arg.payload) : out[3 + i] = arg.payload[i]

\* a 60-byte payload has been encoded
C1_Witness ==
    fn = "to_raw" /\ done /\ Len(arg.payload) = 60 /\ out[3] = 60

-----------------------------------------------------------------------------
(* Reading the traffic of an operation.                                    *)

\* the request frame of a command
Frame(cmd) == to_raw(cmd.id, cmd.payload)

IsCtrl(e) == e.ep = "ctrl"

\* the control-endpoint events of a wire, in order
Ctrl(wr) == SelectSeq(wr, IsCtrl)

\* event i of the wire is the write of request frame f
IsRequest(wr, i, f) ==
    i \in 1..Len(wr) /\ wr[i].ep = "ctrl" /\ wr[i].dir = "out" /\ wr[i].frame = f

\* the positions at which request frame f is written
Requests(wr, f) == {i \in 1..Len(wr) : IsRequest(wr, i, f)}

\* event i is a SetSpeed request (command 0x0c)
IsSetSpeed(wr, i) ==
    /\ i \in 1..Len(wr) /\ wr[i].ep = "ctrl" /\ wr[i].dir = "out"
    /\ wr[i].frame[2] = 12

\* the AttachChip request at position i was written, answered, and the
\* answer decoded Ok
AttachSucceeded(wr, i) ==
    /\ IsRequest(wr, i, Frame(AttachChip)) /\ wr[i].ok
    /\ i + 1 <= Len(wr) /\ wr[i + 1].ep = "ctrl" /\ wr[i + 1].dir = "in" /\ wr[i + 1].ok
    /\ from_raw("AttachChipResponse", wr[i + 1].frame).kind = "Ok"

\* the family byte of the answer to the AttachChip request at position i
ReportedByte(wr, i) == wr[i + 1].frame[4]

Hooks(wr) == {i \in 1..Len(wr) : wr[i].ep = "hook"}

(* C4, as claimed: control-endpoint traffic strictly alternates.  Every    *)
(* write of a request frame to endpoint 0x01 is followed by exactly one    *)
(* read of endpoint 0x81 before the next request frame is written, and     *)
(* endpoint 0x81 is never read without a preceding unanswered request.     *)
C4_Original ==
    LET c == Ctrl(wire)
    IN  \A i \in 1..Len(c) :
          /\ c[i].dir = "out" => (i < Len(c) /\ c[i + 1].dir = "in")
          /\ c[i].dir = "in" => (i > 1 /\ c[i - 1].dir = "out")

(* C4, amended: every request frame whose write to endpoint 0x01 succeeds  *)
(* is followed by exactly one read of endpoint 0x81 before the next        *)
(* request frame is written, and endpoint 0x81 is never read without a     *)
(* preceding successfully written, unanswered request.  A write that fails *)
(* is followed by no read.                                                 *)
C4_ControlAlternates ==
    LET c == Ctrl(wire)
    IN  \A i \in 1..Len(c) :
          /\ (c[i].dir = "out" /\ c[i].ok) => (i < Len(c) /\ c[i + 1].dir = "in")
          /\ (c[i].dir = "out" /\ ~c[i].ok) => (i = Len(c) \/ c[i + 1].dir = "out")
          /\ c[i].dir = "in" => (i > 1 /\ c[i - 1].dir = "out" /\ c[i - 1].ok)

\* an operation of at least three answered commands has run
C4_Witness ==
    /\ op.name = "attach_chip" /\ res.kind = "Ok"
    /\ Len(Ctrl(wire)) >= 6
    /\ \A i \in 1..Len(Ctrl(wire)) : Ctrl(wire)[i].ok

(* C5: one call of attach_chip sends at most three AttachChip commands,    *)
(* each directly preceded by one SetSpeed; it stops retrying at the first  *)
(* AttachChip that succeeds; if all three fail it returns NotAttached      *)
(* without setting the chip descriptor.                                    *)
C5_AttachRetries ==
    op.name = "attach_chip" =>
        LET at == Requests(wire, Frame(AttachChip))
        IN  /\ Cardinality(at) <= 3
            /\ \A i \in at :
                  /\ i >= 3
                  /\ IsSetSpeed(wire, i - 2) /\ wire[i - 2].ok
                  /\ wire[i - 1].ep = "ctrl" /\ wire[i - 1].dir = "in"
            /\ \A i \in at : AttachSucceeded(wire, i) => \A j \in at : j <= i
            /\ (Cardinality(at) = 3 /\ \A i \in at : ~AttachSucceeded(wire, i)) =>
                  /\ res = Err("NotAttached", 0, <<>>)
                  /\ chip = op.chip0

\* three AttachChip commands were sent, the first two were refused
C5_Witness ==
    /\ op.name = "attach_chip"
    /\ Cardinality(Requests(wire, Frame(AttachChip))) = 3
    /\ res = Err("NotAttached", 0, <<>>)
    /\ ~chip.some

(* C6: when the caller supplies an expected family and a successful        *)
(* AttachChip reports a different family, attach_chip fails with           *)
(* ChipMismatch(expected, reported) at once: no further command is sent,   *)
(* the post-attach hook is not run, the chip descriptor is not set.        *)
C6_ChipMismatch ==
    (op.name = "attach_chip" /\ op.expected # "None") =>
        \A i \in 1..Len(wire) :
            (/\ AttachSucceeded(wire, i)
             /\ ReportedByte(wire, i) # RiscvChipCode[op.expected]) =>
                /\ res = Err("ChipMismatch", 0,
                             <<RiscvChipCode[op.expected], ReportedByte(wire, i)>>)
                /\ Len(wire) = i + 1
                /\ Hooks(wire) = {}
                /\ chip = op.chip0

\* a CH57X answered an attach that expected a CH32V103
C6_Witness ==
    /\ op.name = "attach_chip" /\ op.expected = "CH32V103"
    /\ res = Err("ChipMismatch", 0, <<1, 2>>)
    /\ \E i \in 1..Len(wire) : AttachSucceeded(wire, i) /\ ReportedByte(wire, i) = 2

(* C7, as claimed: when the AttachChip response carries a family byte b    *)
(* that is not in the family table, the failure attach_chip reports is     *)
(* UnknownChip(b), not NotAttached.                                        *)
C7_Original ==
    (/\ op.name = "attach_chip"
     /\ Len(wire) >= 2
     /\ IsRequest(wire, Len(wire) - 1, Frame(AttachChip))
     /\ wire[Len(wire)].ok
     /\ from_raw("AttachChipResponse", wire[Len(wire)].frame).err = "UnknownChip") =>
        res = Err("UnknownChip", wire[Len(wire)].frame[4], <<>>)

(* C8, as claimed: on every successful attach, whether or not the caller   *)
(* supplied an expected family, a SetSpeed carrying the reported family is *)
(* sent after the AttachChip response and before the post-attach hook.     *)
C8_Original ==
    (op.name = "attach_chip" /\ res.kind = "Ok") =>
        \E i \in 1..Len(wire) :
            /\ AttachSucceeded(wire, i)
            /\ \E j \in (i + 2)..Len(wire) :
                  /\ IsSetSpeed(wire, j)
                  /\ wire[j].frame[4] = ReportedByte(wire, i)
                  /\ \A h \in Hooks(wire) : j < h

(* C8, amended: on a successful attach without an expected family, a       *)
(* SetSpeed carrying the reported family is sent after the AttachChip      *)
(* response and before the hook; with an expected family no SetSpeed is    *)
(* sent after the AttachChip response (the one sent before AttachChip      *)
(* carried that family).  Either way the hook of the reported family runs  *)
(* exactly once, after that, and before the chip descriptor is stored: an  *)
(* attach that fails, in the hook or before, stores nothing.               *)
C8_SetSpeedAgain ==
    op.name = "attach_chip" =>
        /\ res.kind # "Ok" => chip = op.chip0
        /\ res.kind = "Ok" =>
              \E i \in 1..Len(wire) :
                  /\ AttachSucceeded(wire, i)
                  /\ Cardinality(Hooks(wire)) = 1
                  /\ chip.some
                  /\ RiscvChipCode[chip.chip_family] = ReportedByte(wire, i)
                  /\ IF op.expected = "None"
                     THEN /\ IsSetSpeed(wire, i + 2) /\ wire[i + 2].ok
                          /\ wire[i + 2].frame[4] = ReportedByte(wire, i)
                          /\ Hooks(wire) = {i + 4}
                     ELSE /\ Hooks(wire) = {i + 2}
                          /\ wire[i - 2].frame[4] = ReportedByte(wire, i)
                  /\ \A h \in Hooks(wire) : wire[h].what = chip.chip_family

\* a successful attach with an expected family, and one without
C8_Witness ==
    /\ op.name = "attach_chip" /\ res.kind = "Ok" /\ op.expected = "CH32V103"
    /\ chip.some /\ chip.chip_family = "CH32V103"
    /\ Cardinality(Hooks(wire)) = 1

(* C9, as claimed: once attach_chip has succeeded, every operation other   *)
(* than a detach_chip by the caller leaves the chip descriptor present.    *)
C9_Original == attached => chip.some

(* C10: a successful write_flash(bytes, addr) issues, after any unprotect  *)
(* step, exactly SetWriteMemoryRegion{addr, len}, WriteFlashOP, Unknown07, *)
(* WriteFlash, End, in this order; the flash helper goes out on data-OUT   *)
(* between WriteFlashOP and Unknown07, every payload chunk between         *)
(* WriteFlash and End.                                                     *)
C10_WriteFlashOrder ==
    (op.name = "write_flash" /\ res.kind = "Ok") =>
        LET p1 == Requests(wire, Frame(SetWriteMemoryRegion(op.address, op.len)))
            p2 == Requests(wire, Frame(Program("WriteFlashOP")))
            p3 == Requests(wire, Frame(Program("Unknown07AfterFlashOPWritten")))
            p4 == Requests(wire, Frame(Program("WriteFlash")))
            p5 == Requests(wire, Frame(Program("End")))
            outs == {i \in 1..Len(wire) : wire[i].ep = "ctrl" /\ wire[i].dir = "out"}
            data == {i \in 1..Len(wire) : wire[i].ep = "data" /\ wire[i].dir = "out"}
        IN  /\ \A p \in {p1, p2, p3, p4, p5} : Cardinality(p) = 1
            /\ \A a \in p1, b \in p2, c \in p3, d \in p4, e \in p5 :
                  /\ a < b /\ b < c /\ c < d /\ d < e
                  /\ {i \in outs : i >= a} = {a, b, c, d, e}
                  \* before them, only the unprotect step
                  /\ \A i \in outs : i < a =>
                        /\ support_flash_protect(op.chip0.chip_family)
                        /\ wire[i].frame[2] \in {13, 12, 6, 11}
                  /\ \E q \in data :
                        /\ wire[q].what = "flash_op" /\ b < q /\ q < c
                        /\ \A r \in data : wire[r].what = "flash_op" => r = q
                  /\ \A q \in data : wire[q].what = "chunk" => (d < q /\ q < e)
                  /\ \A q \in data : wire[q].what \in {"flash_op", "chunk"}

\* a protected CH32V103 was unprotected and programmed with two chunks
C10_Witness ==
    /\ op.name = "write_flash" /\ res.kind = "Ok"
    /\ op.chip0.chip_family = "CH32V103" /\ op.len = 4097
    /\ Cardinality({i \in 1..Len(wire) : wire[i].ep = "data" /\ wire[i].what = "chunk"}) = 2
    /\ Requests(wire, Frame(ConfigChip("Unprotect", 0))) # {}

IsChunk(e) == e.ep = "data" /\ e.dir = "out" /\ e.what = "chunk"

IsDataIn(e) == e.ep = "data" /\ e.dir = "in"

(* C11: in the chunk loop of write_flash, after each chunk of user payload *)
(* exactly one 4-byte read is made on data-IN before the next chunk or     *)
(* Program::End; if byte 3 of that acknowledgement is not 0x04,            *)
(* write_flash returns an error at once: no further chunk is written, the  *)
(* chunk is not retried, Program::End is not sent.                         *)
C11_ChunkAck ==
    op.name = "write_flash" =>
        LET pack == write_pack_size(op.chip0.chip_family)
            chunks == SelectSeq(wire, IsChunk)
        IN  /\ \A i \in 1..Len(wire) :
                  /\ (IsChunk(wire[i]) /\ wire[i].ok) =>
                        /\ i < Len(wire) /\ IsDataIn(wire[i + 1])
                        /\ i + 2 <= Len(wire) => ~IsDataIn(wire[i + 2])
                  /\ IsDataIn(wire[i]) =>
                        (i > 1 /\ IsChunk(wire[i - 1]) /\ wire[i - 1].ok)
                  /\ (IsDataIn(wire[i]) /\ wire[i].ok /\ wire[i].frame[4] # 4) =>
                        /\ i = Len(wire)
                        /\ res.kind = "Err" /\ res.err = "Custom"
                        /\ Requests(wire, Frame(Program("End"))) = {}
            \* chunk k is the k-th slice of the payload: none is sent twice
            /\ \A k \in 1..Len(chunks) :
                  /\ (k - 1) * pack < op.len
                  /\ chunks[k].n = Min(pack, op.len - (k - 1) * pack)

\* the first chunk was acknowledged, the second was refused
C11_Witness ==
    /\ op.name = "write_flash" /\ op.len = 4097
    /\ Len(SelectSeq(wire, IsChunk)) = 2
    /\ wire[Len(wire)] = DataIn(<<65, 1, 1, 5>>, TRUE)
    /\ res.kind = "Err" /\ res.err = "Custom"

\* the request at position i was written and answered, and the answer
\* decoded to the byte b
AnsweredU8(wr, i, b) ==
    /\ i + 1 <= Len(wr) /\ wr[i].ok
    /\ wr[i + 1].ep = "ctrl" /\ wr[i + 1].dir = "in" /\ wr[i + 1].ok
    /\ from_raw("u8", wr[i + 1].frame) = Ok(b)

(* C12: if the response to Program::Unknown07AfterFlashOPWritten is any    *)
(* byte other than 0x07, write_flash aborts with an error: WriteFlash is   *)
(* never sent and no byte of user payload is written to data-OUT.          *)
C12_Unknown07Abort ==
    op.name = "write_flash" =>
        LET u7 == Requests(wire, Frame(Program("Unknown07AfterFlashOPWritten")))
        IN  /\ \A i \in u7 : \A b \in 0..255 :
                  (b # 7 /\ AnsweredU8(wire, i, b)) =>
                      /\ res.kind = "Err" /\ res.err = "Custom"
                      /\ Len(wire) = i + 1
                      /\ Requests(wire, Frame(Program("WriteFlash"))) = {}
                      /\ \A j \in 1..Len(wire) : ~IsChunk(wire[j])
            /\ \A j \in Requests(wire, Frame(Program("WriteFlash"))) :
                  \E i \in u7 : i + 2 = j /\ AnsweredU8(wire, i, 7)

\* the probe answered Unknown07AfterFlashOPWritten with 0x00
C12_Witness ==
    /\ op.name = "write_flash" /\ op.len > 0
    /\ res.kind = "Err" /\ res.err = "Custom"
    /\ \E i \in Requests(wire, Frame(Program("Unknown07AfterFlashOPWritten"))) :
          AnsweredU8(wire, i, 0)

\* the positions of the unprotect subcommands (0x06 with action 0x02)
Unprotects(wr) ==
    {i \in 1..Len(wr) : /\ wr[i].ep = "ctrl" /\ wr[i].dir = "out"
                        /\ wr[i].frame[2] = 6 /\ wr[i].frame[4] = 2}

(* C13, as claimed: write_flash sends an unprotect subcommand only when    *)
(* the family supports flash protection and the read-protect query         *)
(* reported the flash protected; otherwise no unprotect subcommand is      *)
(* issued before SetWriteMemoryRegion.                                     *)
C13_Original ==
    op.name = "write_flash" =>
        \A i \in Unprotects(wire) :
            /\ support_flash_protect(op.chip0.chip_family)
            /\ \E j \in Requests(wire, Frame(ConfigChip("CheckReadProtect", 0))) :
                  j < i /\ AnsweredU8(wire, j, 1)

\* the concatenation of a sequence of packets
RECURSIVE Flatten(_)
Flatten(packets) ==
    IF packets = <<>> THEN <<>> ELSE Head(packets) \o Flatten(Tail(packets))

(* C14: for any payload p and packet size s >= 1, write_data writes        *)
(* ceil(len(p)/s) packets of exactly s bytes each to data-OUT (none for an *)
(* empty payload); their concatenation is p followed only by 0xFF bytes.   *)
C14_WriteDataPackets ==
    (fn = "write_data" /\ done /\ arg.packet_len >= 1 /\ out.r.kind = "Ok") =>
        LET s == arg.packet_len
            p == arg.buf
            all == Flatten(out.packets)
        IN  /\ Len(out.packets) = (Len(p) + s - 1) \div s
            /\ \A k \in 1..Len(out.packets) : Len(out.packets[k]) = s
            /\ Len(all) = ((Len(p) + s - 1) \div s) * s
            /\ SubSeq(all, 1, Len(p)) = p
            /\ \A i \in (Len(p) + 1)..Len(all) : all[i] = 255

\* a 5-byte payload went out as two 3-byte packets, the last one padded
C14_Witness ==
    /\ fn = "write_data" /\ done /\ out.r.kind = "Ok"
    /\ arg.buf = <<17, 17, 17, 17, 17>> /\ arg.packet_len = 3
    /\ out.packets = <<<<17, 17, 17>>, <<17, 17, 255>>>>

\* the number of bytes in the first k packets of a stream
RECURSIVE BytesIn(_, _)
BytesIn(stream, k) ==
    IF k = 0 THEN 0 ELSE Len(stream[k]) + BytesIn(stream, k - 1)

(* C15: read_data(n) returns Ok only with exactly n bytes, the in-order    *)
(* concatenation of the packets read from data-IN; it reads no further     *)
(* once the accumulated count has reached n, and when the count differs    *)
(* from n (the last packet overshoots) it returns InvalidPayloadLength     *)
(* instead of truncated data.                                              *)
C15_ReadDataExact ==
    (fn = "read_data" /\ done) =>
        LET k == out.reads
        IN  /\ k <= Len(arg.stream) + 1
            /\ out.r.kind = "Ok" =>
                  /\ Len(out.r.val) = arg.n
                  /\ out.r.val = Flatten(SubSeq(arg.stream, 1, k))
            \* the last read, so every read, was made with fewer than n
            \* bytes accumulated
            /\ k >= 1 => BytesIn(arg.stream, k - 1) < arg.n
            /\ (k <= Len(arg.stream) /\ BytesIn(arg.stream, k) > arg.n) =>
                  out.r = Err("InvalidPayloadLength", 0, <<>>)
            /\ (k <= Len(arg.stream) /\ BytesIn(arg.stream, k) = arg.n) =>
                  out.r.kind = "Ok"

\* four bytes were asked for, packets of 2 and 3 bytes came
C15_Witness ==
    /\ fn = "read_data" /\ done /\ arg.n = 4
    /\ arg.stream = <<<<3, 4>>, <<5, 6, 7>>, <<1>>>>
    /\ out.reads = 2
    /\ out.r = Err("InvalidPayloadLength", 0, <<>>)

(* C16, as claimed: for every u32 length, read_memory(address, length)    *)
(* requests via SetReadMemoryRegion, and on success returns, exactly L     *)
(* bytes, L the smallest multiple of 4 that is >= length (computed without *)
(* 32-bit overflow); output byte i is device byte 4*floor(i/4) + (3 - i    *)
(* mod 4); SetReadMemoryRegion precedes Program::ReadMemory, which         *)
(* precedes the first data-IN read.                                        *)
C16_Original ==
    op.name = "read_memory" =>
        \* L = 4 * words
        LET words == op.len.q + (IF op.len.r = 0 THEN 0 ELSE 1)
            ins == {i \in 1..Len(wire) : IsDataIn(wire[i])}
        IN  /\ res.kind # "Panic"
            /\ res.kind = "Ok" =>
                  /\ Len(res.val) % 4 = 0 /\ Len(res.val) \div 4 = words
                  /\ words < Words30
                  /\ \E a \in Requests(wire, Frame(SetReadMemoryRegion(op.address,
                                                                      4 * words))) :
                        /\ IsRequest(wire, a + 2, Frame(Program("ReadMemory")))
                        /\ \A i \in ins : a + 2 < i
                  /\ \A i \in ins : \A z \in 0..(Len(res.val) - 1) :
                        res.val[z + 1] = wire[i].frame[4 * (z \div 4) + (3 - (z % 4)) + 1]

(* C17, as claimed: erase_flash on a family that supports flash           *)
(* protection queries the read-protect status first and, if the status is  *)
(* protected or unknown (any value other than the unprotected code 2),     *)
(* unprotects before sending Program::EraseFlash; EraseFlash is always     *)
(* followed by an AttachChip before erase_flash returns Ok.                *)
C17_Original ==
    (/\ op.name = "erase_flash" /\ op.chip0.some
     /\ support_flash_protect(op.chip0.chip_family)) =>
        LET erases == Requests(wire, Frame(Program("EraseFlash")))
        IN  /\ wire # <<>> =>
                  IsRequest(wire, 1, Frame(ConfigChip("CheckReadProtect", 0)))
            /\ \A j \in erases : \A b \in 0..255 :
                  (b # 2 /\ AnsweredU8(wire, 1, b)) =>
                      \E u \in Unprotects(wire) : u < j
            /\ res.kind = "Ok" =>
                  \E j \in erases : IsRequest(wire, j + 2, Frame(AttachChip))

SpecialErase == {"erase_flash_by_power_off", "erase_flash_by_rst_pin"}

\* the erase subcommand of a special erase
EraseHow(name) == IF name = "erase_flash_by_power_off" THEN "ByPowerOff" ELSE "ByPinRST"

(* C18, as claimed: erase_flash_by_power_off and erase_flash_by_rst_pin,   *)
(* called with a family that supports special erase on an E or W probe     *)
(* that has no chip attached, send SetSpeed first and then the erase       *)
(* subcommand (0x0D, 0x0F, family) resp. (0x0D, 0x08, family) and return   *)
(* Ok, without any AttachChip having been sent.  (USB transfers succeed.)  *)
C18_Original ==
    (/\ op.name \in SpecialErase
     /\ op.expected # "None" /\ support_special_erase(op.expected)
     /\ dev.variant \in {2, 5}
     /\ ~op.chip0.some
     /\ \A i \in 1..Len(wire) : wire[i].ok) =>
        /\ res.kind = "Ok"
        /\ Len(wire) = 4
        /\ IsSetSpeed(wire, 1)
        /\ IsRequest(wire, 3, Frame(EraseCodeFlash(EraseHow(op.name), op.expected)))
        /\ Requests(wire, Frame(AttachChip)) = {}

\* the positions of the EraseCodeFlash frames (0x0d with 0x08 or 0x0f and a
\* family byte)
EraseFrames(wr) ==
    {i \in 1..Len(wr) : /\ wr[i].ep = "ctrl" /\ wr[i].dir = "out"
                        /\ wr[i].frame[2] = 13 /\ Len(wr[i].frame) = 5
                        /\ wr[i].frame[4] \in {8, 15}}

C20_ProtectPayload ==
    \A i \in 1..Len(wire) :
        (/\ wire[i].ep = "ctrl" /\ wire[i].dir = "out"
         /\ wire[i].frame[2] = 6 /\ wire[i].frame[4] \in {2, 3}) =>
            LET action == wire[i].frame[4]
                payload == Tail3(wire[i].frame)
                version == <<probe.major_version, probe.minor_version>>
                extended == \/ version[1] > 2
                            \/ version[1] = 2 /\ version[2] >= 9
            IN  /\ probe.some
                /\ payload = IF extended
                             THEN <<action, 191, 255, 255, 255, 255, 255, 255>>
                             ELSE <<action>>
                /\ version \in {<<2, 9>>, <<2, 10>>, <<3, 0>>} => Len(payload) = 8
                /\ version \in {<<1, 99>>, <<2, 7>>, <<2, 8>>} => Len(payload) = 1
                /\ op.name = "protect_flash" => action = (IF op.protect THEN 3 ELSE 2)
                /\ op.name \in {"erase_flash", "write_flash"} => action = 2

\* a probe with firmware 3.0 protected the flash with the extended payload
C20_Witness ==
    /\ op.name = "protect_flash" /\ op.protect
    /\ probe.major_version = 3 /\ probe.minor_version = 0
    /\ Requests(wire, <<129, 6, 8, 3, 191, 255, 255, 255, 255, 255, 255>>) # {}

\* the positions of the protect / unprotect subcommands (0x06 with action
\* 0x02 or 0x03)
ProtectCommands(wr) ==
    {i \in 1..Len(wr) : /\ wr[i].ep = "ctrl" /\ wr[i].dir = "out"
                        /\ wr[i].frame[2] = 6 /\ wr[i].frame[4] \in {2, 3}}

(* C21: protect_flash performs a complete re-attach (detach, then a        *)
(* successful attach) before it sends the protect/unprotect subcommand,    *)
(* and sends AttachChip again after the subcommand before returning Ok; if *)
(* the initial re-attach fails, the subcommand is never sent.              *)
C21_ProtectReattach ==
    op.name = "protect_flash" =>
        /\ \A u \in ProtectCommands(wire) :
              /\ IsRequest(wire, 1, Frame(OptEnd)) /\ wire[1].ok /\ wire[2].ok
              /\ \E a \in 3..(u - 1) :
                    /\ AttachSucceeded(wire, a)
                    /\ \E h \in Hooks(wire) : a < h /\ h < u
              /\ res.kind = "Ok" =>
                    \E a \in Requests(wire, Frame(AttachChip)) : u < a
        /\ res.kind = "Ok" => ProtectCommands(wire) # {}
        \* a re-attach that did not end in a stored chip: nothing follows
        /\ ~chip.some => ProtectCommands(wire) = {}

\* the flash was protected after a re-attach
C21_Witness ==
    /\ op.name = "protect_flash" /\ op.protect /\ res.kind = "Ok"
    /\ ProtectCommands(wire) # {}
    /\ \E a \in Requests(wire, Frame(AttachChip)) :
          \A u \in ProtectCommands(wire) : u < a

-----------------------------------------------------------------------------
(* Readers of DMI traffic on the wire.  A DmiOp request is the frame       *)
(* 81 08 06 addr data[4] op, its answer 82 08 06 addr data[4] status.       *)

\* a DmiOp request of the given kind (1 read, 2 write)
IsDmiRequest(e, kind) ==
    /\ e.ep = "ctrl" /\ e.dir = "out"
    /\ Len(e.frame) = 9 /\ e.frame[2] = 8 /\ e.frame[9] = kind

\* an answer to a DmiOp request that came in and decoded
IsDmiAnswer(e) ==
    /\ e.ep = "ctrl" /\ e.dir = "in" /\ e.ok
    /\ Len(e.frame) = 9 /\ e.frame[1] = 130 /\ e.frame[2] = 8

AnswerAddr(e) == e.frame[4]
AnswerData(e) == u32_from_be_bytes(SubSeq(e.frame, 5, 8))
AnswerOp(e) == e.frame[9]

\* the not-attached answer
IsSentinelAnswer(e) ==
    /\ IsDmiAnswer(e)
    /\ AnswerOp(e) = 3 /\ AnswerAddr(e) = 125 /\ AnswerData(e) = U32(65535, 65535)

\* a busy answer that is not the sentinel
IsBusyAnswer(e) == IsDmiAnswer(e) /\ AnswerOp(e) = 3 /\ ~IsSentinelAnswer(e)

\* the Read requests of a call
ReadRequests(wr) == {i \in 1..Len(wr) : IsDmiRequest(wr[i], 1)}

\* the busy answers of a call
BusyAnswers(wr) == {i \in 1..Len(wr) : IsBusyAnswer(wr[i])}

\* C22: dmi_read returns NotAttached when a Read is answered with the
\* sentinel (op = 3, addr = 0x7D, data = 0xFFFFFFFF), whether it is the first
\* answer or follows any number of busy answers: the sentinel is the last
\* event of the call, no Read follows it, and the result is neither Timeout
\* nor anything else; and NotAttached is returned for the sentinel only.
C22_SentinelNotAttached ==
    (fn = "dmi_read" /\ done) =>
        /\ \A i \in 1..Len(wire) :
              IsSentinelAnswer(wire[i]) =>
                 /\ i = Len(wire)
                 /\ res.kind = "Err" /\ res.err = "NotAttached"
        /\ (res.kind = "Err" /\ res.err = "NotAttached") =>
              (Len(wire) > 0 /\ IsSentinelAnswer(wire[Len(wire)]))

\* the sentinel arrives when more than RetryCap busy answers have been
\* counted, and the call returns NotAttached
C22_Witness ==
    /\ fn = "dmi_read" /\ done
    /\ Cardinality(BusyAnswers(wire)) > RetryCap
    /\ IsSentinelAnswer(wire[Len(wire)])
    /\ res.kind = "Err" /\ res.err = "NotAttached"

\* C23 as stated: a call of dmi_read issues no more than 101 Read commands
\* (100 retries after the first), returns Timeout when its Reads were all
\* answered busy and the 100 retries are used up, and always returns.
C23_Original ==
    (fn = "dmi_read" /\ done) =>
        /\ res.kind # "Panic"
        /\ Cardinality(ReadRequests(wire)) <= RetryCap + 1
        /\ (res.kind = "Err" /\ res.err = "Timeout") =>
              Cardinality(ReadRequests(wire)) = RetryCap + 1

\* C24 as stated: an answer with op = 0 makes dmi_read return its data
\* word, and an answer whose op is neither 0 nor 3 makes it return
\* DmiFailed at once, however many busy answers came before.
C24_Original ==
    (fn = "dmi_read" /\ done /\ Len(wire) > 0 /\ IsDmiAnswer(wire[Len(wire)])) =>
        LET last == wire[Len(wire)]
        IN  /\ AnswerOp(last) = 0 => res = Ok(AnswerData(last))
            /\ AnswerOp(last) \notin {0, 3} =>
                  (res.kind = "Err" /\ res.err = "DmiFailed")

\* C25: for every abstractcs value the cmderr field is bits 10..8 and lies
\* in 0..7; try_from_cmderr maps 0 to success and 1..7 to
\* AbstractCommandError of Busy, NotSupported, Exception, HaltOrResume, Bus,
\* Parity, Other in that order, and never takes its unreachable branch.
C25_CmderrDecode ==
    (fn = "cmderr" /\ done) =>
        LET field == (IF bit(arg, 8) THEN 1 ELSE 0) + (IF bit(arg, 9) THEN 2 ELSE 0)
                     + (IF bit(arg, 10) THEN 4 ELSE 0)
            variant == <<"Busy", "NotSupported", "Exception", "HaltOrResume",
                         "Bus", "Parity", "Other">>
        IN  /\ cmderr(arg) = field
            /\ cmderr(arg) \in 0..7
            /\ out.kind # "Panic"
            /\ field = 0 => out = Ok(<<>>)
            /\ field # 0 =>
                  /\ out.kind = "Err" /\ out.err = "AbstractCommandError"
                  /\ out.code = AbstractcsCmdErr[variant[field]]

\* an abstractcs value with every bit around the field set decodes to
\* Parity
C25_Witness ==
    /\ fn = "cmderr" /\ done
    /\ arg.hi = 65535 /\ bit(arg, 11) /\ bit(arg, 12) /\ bit(arg, 7)
    /\ cmderr(arg) = 6
    /\ out.kind = "Err" /\ out.code = AbstractcsCmdErr.Parity

\* the abstract-command functions of the driver
AbstractOps == {"read_reg", "write_reg", "read_mem32", "write_mem32", "write_mem8"}

\* the functions that read a register or memory through an abstract command
DmiReadOps == {"read_reg", "read_mem32", "read_memory_by_dmi"}

\* a DMI write request to register addr
IsDmiWriteTo(e, addr) == IsDmiRequest(e, 2) /\ e.frame[4] = addr

\* a DMI read request of register addr
IsDmiReadOf(e, addr) == IsDmiRequest(e, 1) /\ e.frame[4] = addr

\* the data word of a DMI request
RequestData(e) == u32_from_be_bytes(SubSeq(e.frame, 5, 8))

\* the writes to the command register in a call
CommandWrites(wr) == {i \in 1..Len(wr) : IsDmiWriteTo(wr[i], COMMAND)}

\* a write to abstractcs that sets cmderr to 0b111
ClearsCmderr(e) == IsDmiWriteTo(e, ABSTRACTCS) /\ cmderr(RequestData(e)) = 7

\* the answer at wr[j] is a register's value: a success answer to a Read of
\* register addr
IsValueOf(wr, j, addr) ==
    /\ j > 1
    /\ IsDmiAnswer(wr[j]) /\ AnswerOp(wr[j]) = 0 /\ ~IsSentinelAnswer(wr[j])
    /\ IsDmiReadOf(wr[j - 1], addr)

\* C26 as stated: in read_reg, write_reg, read_mem32, write_mem32 and
\* write_mem8 every write to the command register (0x17) has before it,
\* later than the previous command-register write of the call, a write to
\* abstractcs (0x16) that sets cmderr to 0b111.
C26_Original ==
    op.name \in AbstractOps =>
        \A i \in CommandWrites(wire) :
            \E j \in 1..(i - 1) :
                /\ ClearsCmderr(wire[j])
                /\ \A k \in (j + 1)..(i - 1) : k \notin CommandWrites(wire)

\* C27 as stated: after every write to the command register the function
\* reads abstractcs before any other DMI access and before it returns Ok;
\* when the value read has busy set it returns AbstractCommandError(Busy),
\* when its cmderr is not 0 it returns the decoded AbstractCommandError, and
\* in both cases nothing more is sent.
C27_Original ==
    op.name \in AbstractOps =>
        /\ \A i \in CommandWrites(wire) :
              (wire[i].ok /\ i < Len(wire) /\ IsDmiAnswer(wire[i + 1])) =>
                 /\ res.kind = "Ok" => i + 2 <= Len(wire)
                 /\ i + 2 <= Len(wire) => IsDmiReadOf(wire[i + 2], ABSTRACTCS)
        /\ \A j \in 1..Len(wire) :
              (IsValueOf(wire, j, ABSTRACTCS) /\ \E i \in CommandWrites(wire) : i < j) =>
                 LET abstractcs == AnswerData(wire[j])
                 IN  /\ abstractcs_busy(abstractcs) =>
                           /\ j = Len(wire)
                           /\ res = Err("AbstractCommandError", AbstractcsCmdErr.Busy, <<>>)
                     /\ (~abstractcs_busy(abstractcs) /\ cmderr(abstractcs) # 0) =>
                           /\ j = Len(wire)
                           /\ res = Err("AbstractCommandError", cmderr(abstractcs), <<>>)

\* C28 as stated: read_reg, read_mem32 and read_memory_by_dmi issue their
\* abstract command only while the target is halted.
C28_Original ==
    (op.name \in DmiReadOps /\ CommandWrites(wire) # {}) => op.dev0.halted

\* the DMI write requests of a call, in order
IsDmiWrite(e) == IsDmiRequest(e, 2)
DmiWrites(wr) == SelectSeq(wr, IsDmiWrite)

\* the words written to dmcontrol: haltreq | dmactive, dmactive alone,
\* resumereq | dmactive, ackhavereset | dmactive
HaltRequest == U32(32768, 1)
ClearRequest == U32(0, 1)
ResumeRequest == U32(16384, 1)
AckHaveReset == U32(8192, 1)

\* the values of dmstatus a call has read
DmstatusValues(wr) == {j \in 1..Len(wr) : IsValueOf(wr, j, DMSTATUS)}

\* C29: ensure_mcu_halt returns Ok only when the last dmstatus value it read
\* has allhalted and anyhalted set; when the target is halted on entry it
\* writes no halt request (dmcontrol = 0x80000001); and in every run that
\* returns Ok the last DMI command is the write dmcontrol = 0x00000001, sent
\* after that dmstatus value was read.
C29_EnsureHalt ==
    op.name = "ensure_mcu_halt" =>
        /\ res.kind = "Ok" =>
              /\ DmstatusValues(wire) # {}
              /\ LET j == CHOOSE k \in DmstatusValues(wire) :
                              \A l \in DmstatusValues(wire) : l <= k
                 IN  /\ allhalted(AnswerData(wire[j])) /\ anyhalted(AnswerData(wire[j]))
                     /\ Len(wire) = j + 2
                     /\ IsDmiWriteTo(wire[j + 1], DMCONTROL)
                     /\ RequestData(wire[j + 1]) = ClearRequest
                     /\ IsDmiAnswer(wire[j + 2])
        /\ op.dev0.halted =>
              \A i \in 1..Len(wire) :
                  ~(IsDmiWriteTo(wire[i], DMCONTROL) /\ haltreq(RequestData(wire[i])))

\* a running hart that ignores two halt requests is halted by the third,
\* and ensure_mcu_halt returns Ok
C29_Witness ==
    /\ op.name = "ensure_mcu_halt" /\ res.kind = "Ok"
    /\ ~op.dev0.halted /\ op.dev0.lag = 2
    /\ Cardinality({i \in 1..Len(wire) :
                       IsDmiWriteTo(wire[i], DMCONTROL)
                       /\ RequestData(wire[i]) = HaltRequest}) = 3
    /\ dev.halted

\* a is a prefix of b
IsPrefix(a, b) == Len(a) <= Len(b) /\ a = SubSeq(b, 1, Len(a))

\* the writes of a call of ensure_mcu_resume are a prefix of `all`, all of
\* them to dmcontrol; the first comes after dmcontrol was read; a first
\* dmstatus value that shows the hart running ends the call with Ok after
\* the first write; a call that returns Ok otherwise has made all the
\* writes and has read dmstatus last
ResumeWrites(all) ==
    LET ws == DmiWrites(wire)
        data == [i \in 1..Len(ws) |-> RequestData(ws[i])]
        first == CHOOSE k \in DmstatusValues(wire) :
                     \A l \in DmstatusValues(wire) : k <= l
        running == allrunning(AnswerData(wire[first]))
                   /\ anyrunning(AnswerData(wire[first]))
    IN  /\ IsPrefix(data, all)
        /\ \A i \in 1..Len(ws) : ws[i].frame[4] = DMCONTROL
        /\ \A i \in 1..Len(wire) :
              IsDmiWrite(wire[i]) => \E j \in 1..(i - 1) : IsValueOf(wire, j, DMCONTROL)
        /\ DmstatusValues(wire) # {} =>
              /\ Len(ws) >= 1
              /\ running => (Len(ws) = 1 /\ res.kind = "Ok" /\ first = Len(wire))
        /\ res.kind = "Ok" =>
              /\ DmstatusValues(wire) # {}
              /\ ~running =>
                    /\ data = all
                    /\ IsValueOf(wire, Len(wire), DMSTATUS)
                    /\ \A i \in 1..Len(wire) : IsDmiWrite(wire[i]) => i < Len(wire) - 1

\* C30 as stated: ensure_mcu_resume first sets ackhavereset in dmcontrol;
\* when dmstatus shows the hart running it writes nothing more; otherwise
\* it writes 0x80000001 three times and then 0x40000001, and then reads
\* dmstatus.
C30_Original ==
    op.name = "ensure_mcu_resume" =>
        ResumeWrites(<<AckHaveReset, HaltRequest, HaltRequest, HaltRequest,
                       ResumeRequest>>)

\* C30, amended: ensure_mcu_resume first sets ackhavereset in dmcontrol;
\* when dmstatus shows the hart running it writes nothing more; otherwise
\* it writes 0x80000001 twice, then 0x00000001, then 0x40000001, and then
\* reads dmstatus.
C30_ResumeSequence ==
    op.name = "ensure_mcu_resume" =>
        ResumeWrites(<<AckHaveReset, HaltRequest, HaltRequest, ClearRequest,
                       ResumeRequest>>)

\* a halted hart is resumed: the five writes are on the wire and the last
\* dmstatus value has the resume acknowledged
C30_Witness ==
    /\ op.name = "ensure_mcu_resume" /\ res.kind = "Ok"
    /\ op.dev0.halted /\ ~dev.halted
    /\ Len(DmiWrites(wire)) = 5
    /\ IsValueOf(wire, Len(wire), DMSTATUS)
    /\ allresumeack(AnswerData(wire[Len(wire)]))
    /\ anyresumeack(AnswerData(wire[Len(wire)]))

\* the registers and words of the DMI write requests of a call, those to
\* abstractcs left out
StagedWrites(wr) ==
    LET notClear(e) == IsDmiWrite(e) /\ e.frame[4] # ABSTRACTCS
        ws == SelectSeq(wr, notClear)
    IN  [i \in 1..Len(ws) |-> <<ws[i].frame[4], RequestData(ws[i])>>]

\* C31: soft_reset makes one memory-word write, of 0xBEEF0080 to
\* 0xE000E048: sw x7,0(x5) and ebreak go to the program buffer, the address
\* goes to data0 and into x5 with command 0x00231005, then the value goes to
\* data0 and into x7 with command 0x00271007 (which runs the program
\* buffer); a run that returns Ok has made exactly these writes, any other
\* a prefix of them.
C31_SoftReset ==
    op.name = "soft_reset" =>
        LET all == << <<PROGBUF0, U32(114, 40995)>>, <<PROGBUF1, U32(16, 115)>>,
                      <<DATA0, U32(57344, 57416)>>, <<COMMAND, U32(35, 4101)>>,
                      <<DATA0, U32(48879, 128)>>, <<COMMAND, U32(39, 4103)>> >>
        IN  /\ IsPrefix(StagedWrites(wire), all)
            /\ res.kind = "Ok" => StagedWrites(wire) = all

\* soft_reset has returned Ok and the value is in data0
C31_Witness ==
    /\ op.name = "soft_reset" /\ res.kind = "Ok"
    /\ Len(StagedWrites(wire)) = 6
    /\ dev.data0 = U32(48879, 128)

-----------------------------------------------------------------------------
(* The electronic signature: the answer to GetChipInfo is not framed, and  *)
(* is parsed by the from_raw of its own response type: ESignature in       *)
(* commands/mod.rs, ChipUID in commands.rs.                                *)

HexDigits ==
    <<"0", "1", "2", "3", "4", "5", "6", "7", "8", "9", "a", "b", "c", "d", "e", "f">>

\* format!("{:02x}", b)
format_02x(b) == <<HexDigits[(b \div 16) + 1], HexDigits[(b % 16) + 1]>>

\* bytes.iter().map(|b| format!("{:02x}", b)).collect::<Vec<_>>().join("-")
RECURSIVE join_hex(_)
join_hex(bytes) ==
    IF Len(bytes) = 0 THEN <<>>
    ELSE IF Len(bytes) = 1 THEN format_02x(bytes[1])
    ELSE format_02x(bytes[1]) \o <<"-">> \o join_hex(Tail(bytes))

\* u16::from_be_bytes
u16_from_be_bytes(b) == b[1] * 256 + b[2]

\* ChipUID::from_raw and its Display: the value shown is the UID joined
\* with dashes; there is no flash size in a ChipUID
ChipUID_from_raw(resp) ==
    IF Len(resp) <= 12 THEN Err("InvalidPayloadLength", 0, <<>>)
    ELSE IF SubSeq(resp, 1, 2) = <<255, 255>>
    THEN Ok([flash_size_kb |-> <<>>,
             shown |-> join_hex(
                 u32_to_le_bytes(u32_from_be_bytes(SubSeq(resp, 5, 8)))
                 \o u32_to_le_bytes(u32_from_be_bytes(SubSeq(resp, 9, 12))))])
    ELSE Ok([flash_size_kb |-> <<>>, shown |-> join_hex(<<0, 0, 0, 0, 0, 0, 0, 0>>)])

\* std::mem::transmute::<[u32; 2], [u8; 8]>: the bytes of the two words in
\* the byte order of the host
transmute_u32x2(uid, host) ==
    IF host = "little" THEN u32_to_le_bytes(uid[1]) \o u32_to_le_bytes(uid[2])
    ELSE u32_to_be_bytes(uid[1]) \o u32_to_be_bytes(uid[2])

\* ESignature::from_raw and its Display, on a host of the given byte order
ESignature_from_raw(resp, host) ==
    IF Len(resp) < 12 THEN Err("InvalidPayloadLength", 0, <<>>)
    ELSE LET flash_size_kb == u16_from_be_bytes(SubSeq(resp, 3, 4))
             uid == <<u32_from_be_bytes(SubSeq(resp, 5, 8)),
                      u32_from_be_bytes(SubSeq(resp, 9, 12))>>
         IN  Ok([flash_size_kb |-> <<flash_size_kb>>,
                 shown |-> join_hex(transmute_u32x2(uid, host))])

\* the response of the test chip_id_parsing
SignatureLiteral ==
    <<255, 255, 0, 32, 174, 180, 171, 205, 22, 198, 188, 69,
      227, 57, 227, 57, 227, 57, 227, 57>>

\* a second body, and leads other than FF FF
SignatureBodies ==
    {SignatureLiteral,
     <<255, 255, 1, 0, 1, 2, 3, 4, 5, 6, 7, 8, 9, 10, 11, 12, 13, 14, 15, 16>>}
SignatureLeads == {<<255, 255>>, <<130, 17>>, <<255, 0>>}
SignatureLens == {0, 1, 2, 11, 12, 13, 20}

SignatureResponses ==
    {SubSeq(l \o SubSeq(b, 3, 20), 1, n)
        : l \in SignatureLeads, b \in SignatureBodies, n \in SignatureLens}

HostByteOrders == {"little", "big"}

InitSignature ==
    /\ fn \in {"ChipUID", "ESignature"}
    /\ arg \in [resp : SignatureResponses, host : HostByteOrders]
    /\ out = <<>>
    /\ done = FALSE
    /\ IdleSession

\* the answer to GetChipInfo is parsed by commands.rs
ParseChipUID ==
    /\ fn = "ChipUID" /\ ~done
    /\ out' = ChipUID_from_raw(arg.resp)
    /\ done' = TRUE
    /\ UNCHANGED <<fn, arg, sessionVars>>

\* the answer to GetChipInfo is parsed by commands/mod.rs
ParseESignature ==
    /\ fn = "ESignature" /\ ~done
    /\ out' = ESignature_from_raw(arg.resp, arg.host)
    /\ done' = TRUE
    /\ UNCHANGED <<fn, arg, sessionVars>>

NextSignature == ParseChipUID \/ ParseESignature

SpecSignature == InitSignature /\ [][NextSignature]_vars

\* C32: a signature response of at least 12 bytes that begins FF FF is
\* parsed with success, the flash size is the big-endian u16 at bytes 2..4,
\* and the UID shown is resp[7], resp[6], resp[5], resp[4], resp[11],
\* resp[10], resp[9], resp[8]; the response of the test gives
\* cd-ab-b4-ae-45-bc-c6-16 and 32 KB.
C32_Original ==
    (done /\ Len(arg.resp) >= 12 /\ SubSeq(arg.resp, 1, 2) = <<255, 255>>) =>
        LET resp == arg.resp
        IN  /\ out.kind = "Ok"
            /\ out.val.shown = join_hex(<<resp[8], resp[7], resp[6], resp[5],
                                          resp[12], resp[11], resp[10], resp[9]>>)
            /\ fn = "ESignature" => out.val.flash_size_kb = <<resp[3] * 256 + resp[4]>>
            /\ resp = SignatureLiteral =>
                  /\ out.val.shown = <<"c", "d", "-", "a", "b", "-", "b", "4", "-",
                                       "a", "e", "-", "4", "5", "-", "b", "c", "-",
                                       "c", "6", "-", "1", "6">>
                  /\ fn = "ESignature" => out.val.flash_size_kb = <<32>>

\* the same statement where it holds: ESignature on a little-endian host,
\* and ChipUID on responses longer than 12 bytes
C32_WhereItHolds ==
    (/\ done /\ Len(arg.resp) >= 12 /\ SubSeq(arg.resp, 1, 2) = <<255, 255>>
     /\ \/ fn = "ESignature" /\ arg.host = "little"
        \/ fn = "ChipUID" /\ Len(arg.resp) > 12) =>
        LET resp == arg.resp
        IN  /\ out.kind = "Ok"
            /\ out.val.shown = join_hex(<<resp[8], resp[7], resp[6], resp[5],
                                          resp[12], resp[11], resp[10], resp[9]>>)
            /\ fn = "ESignature" => out.val.flash_size_kb = <<resp[3] * 256 + resp[4]>>

\* ChipUID::from_raw refuses a signature of exactly 12 bytes
C32_TwelveRefused ==
    /\ done /\ fn = "ChipUID" /\ Len(arg.resp) = 12
    /\ SubSeq(arg.resp, 1, 2) = <<255, 255>>
    /\ out.kind = "Err" /\ out.err = "InvalidPayloadLength"

-----------------------------------------------------------------------------
(* The address given to write_flash: RiscvChip::fix_code_flash_start.      *)

\* u32::overflowing_add: the wrapped sum and whether it overflowed
u32_overflowing_add(a, b) ==
    LET lo == a.lo + b.lo
        hi == a.hi + b.hi + (lo \div 65536)
    IN  [sum |-> U32(hi % 65536, lo % 65536), overflow |-> hi >= 65536]

\* code_flash_start as a u32
u32_code_flash_start(c) ==
    U32(code_flash_start(c) \div 65536, code_flash_start(c) % 65536)

\* RiscvChip::fix_code_flash_start, in a build with overflow checks (the
\* dev profile) or without (the release profile)
fix_code_flash_start(c, start_address, profile) ==
    LET a == u32_overflowing_add(u32_code_flash_start(c), start_address)
        addr == a.sum
    IN  IF a.overflow /\ profile = "dev" THEN Panic("attempt to add with overflow")
        ELSE IF addr.hi >= 4096 THEN Ok(U32(addr.hi - 2048, addr.lo))
        ELSE Ok(addr)

\* start addresses: around 0, 0x0800_0000, 0x1000_0000, 0x1800_0000,
\* 0xF800_0000 and 0xFFFF_FFFF
StartAddrs ==
    [hi : {0, 2047, 2048, 4095, 4096, 6144, 63487, 63488, 65535},
     lo : {0, 1, 65535}]

BuildProfiles == {"dev", "release"}

InitFlashStart ==
    /\ fn = "fix_code_flash_start"
    /\ arg \in [family : RiscvChip, addr : StartAddrs, profile : BuildProfiles]
    /\ out = <<>>
    /\ done = FALSE
    /\ IdleSession

\* the flash command maps the address of a section
FixCodeFlashStart ==
    /\ fn = "fix_code_flash_start" /\ ~done
    /\ out' = fix_code_flash_start(arg.family, arg.addr, arg.profile)
    /\ done' = TRUE
    /\ UNCHANGED <<fn, arg, sessionVars>>

NextFlashStart == FixCodeFlashStart

SpecFlashStart == InitFlashStart /\ [][NextFlashStart]_vars

\* C33: for every family and every 32-bit addr, fix_code_flash_start(addr)
\* is flash_start + addr when addr < 0x1000_0000 and addr - 0x0800_0000
\* otherwise, and the computation never overflows 32 bits.
C33_Original ==
    done =>
        LET start == u32_code_flash_start(arg.family)
            addr  == arg.addr
        IN  /\ ~u32_overflowing_add(start, addr).overflow
            /\ out.kind = "Ok"
            /\ out.val = IF addr.hi < 4096 THEN U32(start.hi + addr.hi, addr.lo)
                         ELSE U32(addr.hi - 2048, addr.lo)

\* what the function computes: with s = flash_start + addr and no
\* overflow, s when s < 0x1000_0000 and s - 0x0800_0000 otherwise; with
\* overflow, a panic in the dev profile and the wrapped sum in release
C33_Computed ==
    done =>
        LET a == u32_overflowing_add(u32_code_flash_start(arg.family), arg.addr)
        IN  IF a.overflow
            THEN IF arg.profile = "dev" THEN out.kind = "Panic"
                 ELSE out = Ok(a.sum) /\ a.sum.hi < 2048
            ELSE out = Ok(IF a.sum.hi < 4096 THEN a.sum
                          ELSE U32(a.sum.hi - 2048, a.sum.lo))

\* 0x0800_0000 on a family whose flash starts at 0x0800_0000 stays
\* 0x0800_0000
C33_FlashBaseKept ==
    /\ done /\ code_flash_start(arg.family) = 134217728
    /\ arg.addr = U32(2048, 0) /\ out = Ok(U32(2048, 0))

\* the addition has overflowed
C33_Overflowed ==
    /\ done /\ out.kind = "Panic" /\ arg.addr = U32(63488, 0)

-----------------------------------------------------------------------------
(* Mode switch: WchLink::switch_from_rv_to_dap and switch_from_dap_to_rv.  *)
(* The probe is on the bus under the RV id (1a86:8010), under the DAP id   *)
(* (1a86:8012), or not at all.                                             *)

\* WchLinkVariant::support_switch_mode
support_switch_mode(variant) == variant # "Ch549"

\* a write to the DAP write endpoint 0x02
DapOut(frame, ok) ==
    [ep |-> "dap", dir |-> "out", ok |-> ok, frame |-> frame, what |-> "", n |-> 0]

\* usb_device::open_nth(vid, pid, nth): the nth device with these ids, or
\* ProbeNotFound, or the error of opening and claiming it
usb_open_nth(w, mode) ==
    IF w.dev.mode = mode THEN {Ok(<<>>), Err("Rusb", 0, <<>>)}
    ELSE {Err("ProbeNotFound", 0, <<>>)}

\* WchLink::open_nth
open_nth(w) ==
    UNION {IF o.kind = "Ok"
           THEN probe_info(w)
           ELSE IF \E d \in usb_open_nth(w, "dap") : d.kind = "Ok"
                THEN {[w |-> w, r |-> Err("ProbeModeNotSupported", 0, <<>>)]}
                ELSE {[w |-> w, r |-> o]}
           : o \in usb_open_nth(w, "rv")}

\* the probe leaves the bus and comes back under the other id when the
\* bytes of the switch have reached it
Reenumerated(w, mode, arrived) ==
    IF arrived THEN [w EXCEPT !.dev.mode = mode] ELSE w

\* WchLink::switch_from_rv_to_dap
switch_from_rv_to_dap(w) ==
    Try(open_nth(w), LAMBDA w1, info :
        IF support_switch_mode(info.variant)
        THEN {Return(Reenumerated(x.w, "dap", x.w.wire[Len(w1.wire) + 1].ok), Ok(<<>>))
                 : x \in send_command(w1, RawCommand(255, <<65>>))}
        ELSE {Return(w1, Err("Custom", 0, <<>>))})

\* WchLink::switch_from_dap_to_rv: the result of the write is dropped
switch_from_dap_to_rv(w) ==
    UNION {IF o.kind # "Ok" THEN {Return(w, o)}
           ELSE {Return(Reenumerated(
                            [w EXCEPT !.wire = Append(@, DapOut(<<129, 255, 1, 82>>, ok))],
                            "rv", ok),
                        Ok(<<>>)) : ok \in BOOLEAN}
           : o \in usb_open_nth(w, "dap")}

\* where the probe is when the program starts
ProbeModes == {"rv", "dap", "absent"}

SwitchNoOp == [name |-> "none", dev0 |-> <<>>]

InitModeSwitch ==
    /\ fn = "none" /\ arg = <<>> /\ out = <<>> /\ done = FALSE
    /\ dev \in [variant : {p.variant : p \in DevProbes}, major : {2}, minor : {7, 9},
                mode : ProbeModes]
    /\ chip = NoneChipInfo
    /\ probe = NoneProbeInfo
    /\ speed = 1
    /\ op = SwitchNoOp
    /\ wire = <<>>
    /\ res = Ok(<<>>)
    /\ attached = FALSE

\* `wlink mode-switch --dap`
CallSwitchFromRvToDap ==
    /\ op.name = "none"
    /\ \E s \in switch_from_rv_to_dap(Self) :
          /\ Returned(s)
          /\ op' = [name |-> "switch_from_rv_to_dap", dev0 |-> dev]
          /\ UNCHANGED attached

\* `wlink mode-switch --rv`
CallSwitchFromDapToRv ==
    /\ op.name = "none"
    /\ \E s \in switch_from_dap_to_rv(Self) :
          /\ Returned(s)
          /\ op' = [name |-> "switch_from_dap_to_rv", dev0 |-> dev]
          /\ UNCHANGED attached

\* the program has ended; it is run again on the probe as it is now
SwitchContinue ==
    /\ op.name # "none"
    /\ op' = SwitchNoOp
    /\ wire' = <<>>
    /\ res' = Ok(<<>>)
    /\ probe' = NoneProbeInfo
    /\ UNCHANGED <<dev, chip, speed, attached, codecVars>>

NextModeSwitch ==
    \/ CallSwitchFromRvToDap
    \/ CallSwitchFromDapToRv
    \/ SwitchContinue

SpecModeSwitch == InitModeSwitch /\ [][NextModeSwitch]_vars

\* the bytes of a mode switch on the wire: requests with the ID 0xff on
\* the control endpoint, and writes to the DAP endpoint
SwitchFrames(wr) ==
    LET isSwitch(e) == (e.ep = "ctrl" /\ e.dir = "out" /\ e.frame[2] = 255)
                       \/ e.ep = "dap"
    IN  SelectSeq(wr, isSwitch)

\* C34: a mode switch on a Legacy (CH549) probe, in either direction,
\* returns an error and writes no mode-switch bytes; on every other
\* variant RV to DAP sends exactly the frame 81 FF 01 41 on the control
\* endpoint and DAP to RV writes exactly 81 FF 01 52 to endpoint 0x02.
C34_Original ==
    op.name \in {"switch_from_rv_to_dap", "switch_from_dap_to_rv"} =>
        LET s == SwitchFrames(wire)
        IN  IF op.dev0.variant = 1
            THEN res.kind = "Err" /\ s = <<>>
            ELSE /\ Len(s) <= 1
                 /\ res.kind = "Ok" => Len(s) = 1
                 /\ \A i \in 1..Len(s) :
                       IF op.name = "switch_from_rv_to_dap"
                       THEN s[i].ep = "ctrl" /\ s[i].frame = <<129, 255, 1, 65>>
                       ELSE s[i].ep = "dap" /\ s[i].frame = <<129, 255, 1, 82>>

\* what holds: RV to DAP is refused on a CH549 with nothing written, and
\* sends 81 FF 01 41 on the others; DAP to RV writes 81 FF 01 52 to the
\* probe found under the DAP id, of whatever variant, and returns Ok
C34_Computed ==
    LET s == SwitchFrames(wire)
    IN  /\ op.name = "switch_from_rv_to_dap" =>
              IF op.dev0.variant = 1
              THEN res.kind = "Err" /\ s = <<>>
              ELSE /\ Len(s) <= 1
                   /\ res.kind = "Ok" => Len(s) = 1
                   /\ \A i \in 1..Len(s) :
                         s[i].ep = "ctrl" /\ s[i].frame = <<129, 255, 1, 65>>
        /\ op.name = "switch_from_dap_to_rv" =>
              /\ Len(s) <= 1
              /\ res.kind = "Ok" <=> Len(s) = 1
              /\ \A i \in 1..Len(s) :
                    s[i].ep = "dap" /\ s[i].frame = <<129, 255, 1, 82>>

\* a CH549 probe under the DAP id has been sent 81 FF 01 52 and the call
\* has returned Ok
C34_LegacySwitched ==
    /\ op.name = "switch_from_dap_to_rv" /\ op.dev0.variant = 1
    /\ res.kind = "Ok"
    /\ Len(SwitchFrames(wire)) = 1 /\ SwitchFrames(wire)[1].ok

-----------------------------------------------------------------------------
(* Specification of the request frames: every command the crate exports    *)
(* is encoded by Command::to_raw, and the frame comes back from the probe   *)
(* as a success response with the same payload.                            *)

\* Command::to_raw in a build with overflow checks (the dev profile) or
\* without (release): `bytes.len() as u8 - 3` is a u8 subtraction
to_raw_in_profile(command_id, payload, profile) ==
    IF profile = "dev" /\ (Len(payload) + 3) % 256 < 3
    THEN Panic("attempt to subtract with overflow")
    ELSE Ok(to_raw(command_id, payload))

\* the typed commands, one of each payload layout
TypedCommands ==
    {GetProbeInfo, AttachChip, OptEnd, SetSpeed(1, 1),
     ConfigChip("CheckReadProtect", 0), ConfigChip("UnprotectEx", 191),
     Program("WriteFlash"), ResetAndRun,
     SetWriteMemoryRegion(134217728, 4096), SetReadMemoryRegion(536870912, 8),
     EraseCodeFlash("ByPinRST", "CH32V103"),
     DmiOpRead(DMSTATUS), DmiOpWrite(DMCONTROL, U32(32768, 1))}

\* lengths of the Vec<u8> given to RawCommand: up to the frame limit and
\* beyond it, and around the limits of the u8 length byte
RawLens == {0, 1, 2, 3, 59, 60, 61, 252, 253, 255, 256, 257, 259}

RawCommands ==
    {RawCommand(n, [i \in 1..l |-> (7 * i) % 256]) : n \in CodeBytes \cup {255},
                                                     l \in RawLens}

InitFrames ==
    /\ fn = "to_raw"
    /\ arg \in [cmd : TypedCommands \cup RawCommands, profile : BuildProfiles]
    /\ out = <<>>
    /\ done = FALSE
    /\ IdleSession

\* send_command encodes the command
EncodeCommand ==
    /\ fn = "to_raw"
    /\ out' = to_raw_in_profile(arg.cmd.id, arg.cmd.payload, arg.profile)
    /\ fn' = "encoded"
    /\ UNCHANGED <<arg, done, sessionVars>>

\* the frame with 0x82 for its first byte is decoded as a Vec<u8>
DecodeEcho ==
    /\ fn = "encoded" /\ out.kind = "Ok"
    /\ out' = from_raw("vec", [out.val EXCEPT ![1] = 130])
    /\ fn' = "decoded"
    /\ done' = TRUE
    /\ UNCHANGED <<arg, sessionVars>>

NextFrames == EncodeCommand \/ DecodeEcho

SpecFrames == InitFrames /\ [][NextFrames]_vars

\* C35: every request frame of the public command API (the typed commands
\* and RawCommand with any byte vector) has a LEN byte equal to the length
\* of its payload and at most 60; the length is neither truncated to 8
\* bits nor does it underflow.
C35_Original ==
    fn = "encoded" =>
        /\ out.kind = "Ok"
        /\ out.val[3] = Len(arg.cmd.payload)
        /\ out.val[3] <= 60

\* what holds: the typed commands have payloads of at most 8 bytes and a
\* right LEN byte; a RawCommand has the LEN byte len mod 256, whatever its
\* length, or panics in the dev profile when (len + 3) mod 256 < 3
C35_Computed ==
    fn = "encoded" =>
        LET n == Len(arg.cmd.payload)
        IN  /\ arg.cmd \in TypedCommands => n <= 8
            /\ IF arg.profile = "dev" /\ n % 256 >= 253
               THEN out.kind = "Panic"
               ELSE out.kind = "Ok" /\ out.val[3] = n % 256 /\ Len(out.val) = n + 3

\* a RawCommand of 61 bytes has been encoded, LEN byte 61
C35_SixtyOne ==
    /\ fn = "encoded" /\ Len(arg.cmd.payload) = 61
    /\ out.kind = "Ok" /\ out.val[3] = 61

\* a RawCommand of 256 bytes has been encoded, LEN byte 0
C35_Truncated ==
    /\ fn = "encoded" /\ Len(arg.cmd.payload) = 256
    /\ out.kind = "Ok" /\ out.val[3] = 0

\* C36: for a payload P of at most 60 bytes and a command ID N, the frame
\* of to_raw with its first byte replaced by 0x82, decoded by the generic
\* decoder for Vec<u8>, is exactly P.
C36_RoundTrip ==
    (fn = "decoded" /\ Len(arg.cmd.payload) <= 60) => out = Ok(arg.cmd.payload)

\* a 60-byte payload has made the round trip
C36_Witness ==
    /\ fn = "decoded" /\ Len(arg.cmd.payload) = 60
    /\ out.kind = "Ok" /\ out.val = arg.cmd.payload /\ out.val[60] = (7 * 60) % 256

-----------------------------------------------------------------------------
(* Specification of the loop of ensure_mcu_halt, one step per DMI access   *)
(* of the function: the read of dmstatus on entry, each turn of the loop   *)
(* (halt request, read of dmstatus), and the write that clears the         *)
(* request.  The hart halts at once, after a few requests, or never; an    *)
(* access meets up to two busy answers, a failed answer, the sentinel or a *)
(* USB error.                                                              *)

\* the halt requests counted before the count stops
MaxHaltWrites == 105

\* a dmstatus value on the wire reports the hart halted
HaltedSeen(wr) ==
    \E j \in DmstatusValues(wr) :
        allhalted(AnswerData(wr[j])) /\ anyhalted(AnswerData(wr[j]))

\* a hart that never halts ignores the next request as well
StillDeaf(d, deaf) == IF deaf THEN [d EXCEPT !.lag = 1] ELSE d

InitHaltLoop ==
    /\ fn = "none" /\ arg = <<>> /\ out = <<>> /\ done = FALSE
    /\ \E h \in BOOLEAN, l \in {0, 1, 3}, b \in {0, 2}, g \in Glitches,
          deaf \in BOOLEAN :
          /\ deaf => (~h /\ l = 1)
          /\ dev = [QuietDm EXCEPT !.halted = h, !.lag = l, !.busy = b, !.glitch = g]
          /\ op = [name |-> "ensure_mcu_halt", pc |-> "entry", writes |-> 0,
                   deaf |-> deaf, failed |-> FALSE, seen |-> FALSE]
    /\ AttachedSession

\* the step has made its accesses and ended in x; the function goes on at
\* pc, or has returned x.r
HaltStepped(x, writes) ==
    LET halted == x.r.kind = "Ok" /\ allhalted(x.r.val) /\ anyhalted(x.r.val)
    IN  /\ dev' = StillDeaf(x.w.dev, op.deaf)
        /\ wire' = x.w.wire
        /\ res' = IF x.r.kind = "Ok" THEN res ELSE x.r
        /\ op' = [op EXCEPT !.pc = IF x.r.kind # "Ok" THEN "returned"
                                   ELSE IF halted THEN "clear" ELSE "loop",
                            !.writes = writes,
                            !.failed = @ \/ x.r.kind # "Ok",
                            !.seen = @ \/ HaltedSeen(x.w.wire)]
        /\ UNCHANGED <<chip, probe, speed, attached, codecVars>>

\* let dmstatus = self.probe.read_dmi_reg::<Dmstatus>()?
HaltEntry ==
    /\ op.pc = "entry"
    /\ \E x \in dmi_read(Self, DMSTATUS) : HaltStepped(x, op.writes)

\* a loop that gives up with Timeout after RetryCap turns, as dmi_read does
HaltTurnCapped ==
    /\ op.pc = "loop"
    /\ IF op.writes > RetryCap
       THEN HaltStepped([w |-> Self, r |-> Err("Timeout", 0, <<>>)], op.writes)
       ELSE \E x \in AndThen(dmi_write(Self, DMCONTROL, U32(32768, 1)),
                             LAMBDA w1, v1 : dmi_read(w1, DMSTATUS)) :
               HaltStepped(x, Min(op.writes + 1, MaxHaltWrites))

\* one turn of the loop: dmi_write(0x10, 0x80000001)?, read dmstatus, break
\* when it reports halted, sleep and go round otherwise
HaltTurn ==
    /\ op.pc = "loop"
    /\ \E x \in AndThen(dmi_write(Self, DMCONTROL, U32(32768, 1)),
                        LAMBDA w1, v1 : dmi_read(w1, DMSTATUS)) :
          HaltStepped(x, Min(op.writes + 1, MaxHaltWrites))

\* self.probe.dmi_write(0x10, 0x00000001)?; Ok(())
HaltClear ==
    /\ op.pc = "clear"
    /\ \E x \in dmi_write(Self, DMCONTROL, U32(0, 1)) :
          /\ dev' = x.w.dev
          /\ wire' = x.w.wire
          /\ res' = IF x.r.kind = "Ok" THEN Ok(<<>>) ELSE x.r
          /\ op' = [op EXCEPT !.pc = "returned", !.failed = @ \/ x.r.kind # "Ok"]
          /\ UNCHANGED <<chip, probe, speed, attached, codecVars>>

NextHaltLoop ==
    \/ HaltEntry
    \/ HaltTurn
    \/ HaltClear

\* the function runs on: the thread sleeps 10 ms between two turns and is
\* not stopped
SpecHaltLoop == InitHaltLoop /\ [][NextHaltLoop]_vars /\ WF_vars(NextHaltLoop)

\* ensure_mcu_halt has returned only after an access failed or dmstatus
\* reported the hart halted; it has returned Ok only in the second case,
\* and an error only in the first, which is the error of that access: no
\* access meets more than two busy answers here, and there is no Timeout
C37_Returns ==
    /\ op.pc = "returned" => (op.failed \/ op.seen)
    /\ (op.pc = "returned" /\ ~op.failed) => (res.kind = "Ok" /\ op.seen)
    /\ (op.pc = "returned" /\ res.kind = "Ok") => (op.seen /\ ~op.failed)
    /\ op.pc = "clear" => op.seen
    /\ op.deaf => ~op.seen
    /\ res.err # "Timeout"

\* a turn of the loop writes dmcontrol = 0x80000001 once; the loop is left
\* only when dmstatus reports halted or an access fails
C37_Turns ==
    [][op.pc = "loop" =>
          /\ Len(DmiWrites(wire')) >= 1
          /\ \A i \in 1..Len(DmiWrites(wire')) :
                /\ DmiWrites(wire')[i].frame[4] = DMCONTROL
                /\ RequestData(DmiWrites(wire')[i]) = HaltRequest
          /\ op'.pc = "loop" => (~op'.seen /\ ~op'.failed)
          /\ op'.pc # "loop" => (op'.seen \/ op'.failed)]_vars

\* C37: ensure_mcu_halt has no retry bound.  When no DMI access fails it
\* returns Ok if and only if some read of dmstatus reports allhalted and
\* anyhalted; while dmstatus reports the hart not halted it goes on
\* writing dmcontrol = 0x80000001 and does not return, with Timeout or
\* otherwise, unlike dmi_read.
C37_NoRetryBound ==
    /\ []C37_Returns
    /\ C37_Turns
    /\ (op.seen ~> op.pc = "returned")
    /\ (~op.deaf ~> op.pc = "returned")

\* the hart has not halted after more requests than dmi_read has retries,
\* no access has failed, and the function is still in its loop
C37_Witness ==
    /\ op.name = "ensure_mcu_halt" /\ op.pc = "loop" /\ op.deaf
    /\ op.writes = MaxHaltWrites /\ op.writes > RetryCap + 1
    /\ ~op.failed /\ ~dev.halted

-----------------------------------------------------------------------------
(* Specification of the fastprogram stream: the bytes write_flash puts on  *)
(* data-OUT between Program::WriteFlash and Program::End, for every        *)
(* family, with the family's real pack and packet sizes.                   *)

\* buf.chunks(n)
RECURSIVE chunks(_, _)
chunks(buf, n) ==
    IF buf = <<>> THEN <<>>
    ELSE LET k == Min(Len(buf), n)
         IN  <<SubSeq(buf, 1, k)>> \o chunks(SubSeq(buf, k + 1, Len(buf)), n)

\* the packets of the loop `for chunk in data.chunks(write_pack_size)` of
\* write_flash, every write and every acknowledgement succeeding
RECURSIVE fastprogram_packets(_, _)
fastprogram_packets(cs, packet_len) ==
    IF cs = <<>> THEN <<>>
    ELSE write_data_with_progress(Head(cs), packet_len, Len(Head(cs))).packets
         \o fastprogram_packets(Tail(cs), packet_len)

\* the user's data: n bytes, none of them 0xFF
UserData(n) == [i \in 1..n |-> (i * 3) % 251]

\* lengths of the data: empty, around one packet, around one pack, and a
\* second pack with a short and with a full last packet
PackLens(c) ==
    LET p == write_pack_size(c)
        d == data_packet_size(c)
    IN  {0, 1, d - 1, d, d + 1, p - 1, p, p + 1, 2 * p - d + 5, 2 * p}

InitFastProgram ==
    /\ fn = "fastprogram"
    /\ \E c \in RiscvChip : \E n \in PackLens(c) : arg = [family |-> c, len |-> n]
    /\ out = <<>>
    /\ done = FALSE
    /\ IdleSession

\* write_flash streams the data
FastProgram ==
    /\ fn = "fastprogram" /\ ~done
    /\ out' = fastprogram_packets(
                  chunks(UserData(arg.len), write_pack_size(arg.family)),
                  data_packet_size(arg.family))
    /\ done' = TRUE
    /\ UNCHANGED <<fn, arg, sessionVars>>

NextFastProgram == FastProgram

SpecFastProgram == InitFastProgram /\ [][NextFastProgram]_vars

\* C38: for every family write_pack_size is a positive multiple of
\* data_packet_size, and the bytes write_flash writes to data-OUT between
\* Program::WriteFlash and Program::End are the user's data followed only
\* by 0xFF padding: no padding between two bytes of the data, and only the
\* last packet of the last chunk padded.
C38_TrailingPadding ==
    /\ \A c \in RiscvChip :
          /\ data_packet_size(c) > 0 /\ write_pack_size(c) > 0
          /\ write_pack_size(c) % data_packet_size(c) = 0
    /\ done =>
          LET d == data_packet_size(arg.family)
              stream == Flatten(out)
              data == UserData(arg.len)
          IN  /\ \A i \in 1..Len(out) : Len(out[i]) = d
              /\ Len(stream) >= arg.len /\ Len(stream) - arg.len < d
              /\ SubSeq(stream, 1, arg.len) = data
              /\ \A i \in (arg.len + 1)..Len(stream) : stream[i] = 255
              /\ \A i \in 1..(Len(out) - 1) : \A j \in 1..d : out[i][j] # 255

\* two packs have been streamed and the last packet of the second is
\* padded
C38_Witness ==
    /\ done /\ arg.len > write_pack_size(arg.family)
    /\ Len(out) = 2 * (write_pack_size(arg.family) \div data_packet_size(arg.family))
    /\ out[Len(out)][data_packet_size(arg.family)] = 255
    /\ out[Len(out)][1] # 255

-----------------------------------------------------------------------------
(* Specification of the receive path of send_command: what the read of    *)
(* the control endpoint returned goes through read_raw_cmd_resp and the    *)
(* from_raw of the command's response type.                                *)

\* WchLink::read_raw_cmd_resp after the read: buf[..bytes_read].to_vec(),
\* and, when the trace level is enabled, the log line with &resp[..3] and
\* &resp[3..]
read_raw_cmd_resp(resp, trace) ==
    IF trace /\ Len(resp) < 3
    THEN Panic("range end index 3 out of range for slice")
    ELSE Ok(resp)

\* C::Response::from_raw(&resp) of send_command
response_from_raw(rtype, resp) ==
    IF rtype = "ESignature" THEN ESignature_from_raw(resp, "little")
    ELSE from_raw(rtype, resp)

\* the tail of send_command: read_raw_cmd_resp()? and from_raw
receive(rtype, resp, trace) ==
    LET r == read_raw_cmd_resp(resp, trace)
    IN  IF r.kind # "Ok" THEN r ELSE response_from_raw(rtype, r.val)

\* what a read of the control endpoint returns: up to 64 bytes
ControlReads ==
    DecoderResponses \cup SignatureResponses
        \cup {<<t, 13, 61>> \o [i \in 1..61 |-> i] : t \in LeadBytes}

InitReceive ==
    /\ fn = "send_command"
    /\ arg \in [rtype : ResponseTypes \cup {"ESignature"}, resp : ControlReads,
                trace : BOOLEAN]
    /\ out = <<>>
    /\ done = FALSE
    /\ IdleSession

\* send_command has written the request and reads the answer
Receive ==
    /\ fn = "send_command" /\ ~done
    /\ out' = receive(arg.rtype, arg.resp, arg.trace)
    /\ done' = TRUE
    /\ UNCHANGED <<fn, arg, sessionVars>>

NextReceive == Receive

SpecReceive == InitReceive /\ [][NextReceive]_vars

\* C39: for every byte sequence of 0 to 64 bytes that a read of the
\* control endpoint can return, the empty, 1-byte and 2-byte ones
\* included, send_command returns a decoded response or an Error; neither
\* the receive path nor the decoder indexes past the end of the response.
C39_Original ==
    done => out.kind \in {"Ok", "Err"}

\* where send_command panics: in the generic decoder on an empty response
\* and on a response of one or two bytes that starts 0x81 or 0x82, and in
\* read_raw_cmd_resp on every response shorter than 3 bytes when the trace
\* level is on; ESignature::from_raw refuses a short response with an Error
C39_Computed ==
    done =>
        LET n == Len(arg.resp)
        IN  out.kind = "Panic" <=>
              \/ arg.trace /\ n < 3
              \/ arg.rtype # "ESignature" /\ n = 0
              \/ arg.rtype # "ESignature" /\ n \in {1, 2} /\ arg.resp[1] \in {129, 130}

\* the empty response has made the decoder index out of bounds
C39_EmptyPanics ==
    /\ done /\ arg.resp = <<>> /\ ~arg.trace /\ arg.rtype = "u8"
    /\ out.kind = "Panic"


-----------------------------------------------------------------------------
(* ensure_mcu_resume and the acknowledgement of the resume request          *)

\* a DMI access of the call failed: a transfer on the control endpoint
\* failed, a Read was answered with a failure or with the not-attached
\* answer, or a Read stayed busy beyond the retries
AccessFailed(wr) ==
    \/ \E i \in 1..Len(wr) : wr[i].ep = "ctrl" /\ ~wr[i].ok
    \/ \E j \in 2..Len(wr) :
          /\ IsDmiRequest(wr[j - 1], 1) /\ IsDmiAnswer(wr[j])
          /\ AnswerOp(wr[j]) = 2 \/ IsSentinelAnswer(wr[j])
    \/ Cardinality(BusyAnswers(wr)) > RetryCap

\* C40: ensure_mcu_resume returns Ok whenever all of its DMI accesses
\* succeed, whether or not the last dmstatus value has allresumeack and
\* anyresumeack set: a resume request that is not acknowledged is not an
\* error for the caller, and every error it returns is that of a failed
\* access.
C40_ResumeOk ==
    op.name = "ensure_mcu_resume" =>
        /\ ~AccessFailed(wire) => res.kind = "Ok"
        /\ res.kind # "Ok" =>
              /\ AccessFailed(wire)
              /\ res.kind = "Err" /\ res.err \in {"DmiFailed", "NotAttached", "Timeout", "Rusb"}

\* a halted hart that does not acknowledge the resume request: the request
\* is on the wire, the last dmstatus value has neither bit, the result is Ok
C40_Witness ==
    /\ op.name = "ensure_mcu_resume" /\ res.kind = "Ok"
    /\ op.dev0.halted /\ ~op.dev0.resume_ok
    /\ \E i \in 1..Len(wire) :
          IsDmiWriteTo(wire[i], DMCONTROL) /\ RequestData(wire[i]) = ResumeRequest
    /\ IsValueOf(wire, Len(wire), DMSTATUS)
    /\ ~allresumeack(AnswerData(wire[Len(wire)]))
    /\ ~anyresumeack(AnswerData(wire[Len(wire)]))
=============================================================================
